---- MODULE Spec2Model ----
(***************************************************************************)
(* Evaluation core of MUGNet, one specification per component:             *)
(*   SpecRetry    the request loop of ResilientAIEvaluator                 *)
(*                (src/automated_evaluation.py);                           *)
(*   SpecRag      the chunk index of Architecture2_LLM_RAG                 *)
(*                (src/architecture_comparison.py);                        *)
(*   SpecMatch    the three match evaluators: evaluate_semantic_match,     *)
(*                basic_semantic_match and smart_match;                    *)
(*   SpecFull     the full-context strategies: Architecture1_PureLLM and   *)
(*                test_gpt4_question (src/gpt4_complete_test.py);          *)
(*   SpecCompare  ArchitectureComparison.run_comparison;                   *)
(*   SpecBatch    FastAIEvaluator.evaluate_batch                           *)
(*                (src/fast_evaluation.py);                                *)
(*   SpecResume   QuestionEvaluator.evaluate_questions                     *)
(*                (src/question_evaluator.py);                             *)
(*   SpecCheckpoint  the saves of evaluate_questions and of main of        *)
(*                gpt4_complete_test.py;                                   *)
(*   SpecLoad     the loaders of src/architecture_comparison.py;           *)
(*   SpecAsk      evaluate_questions with the requests of ask_ai_question; *)
(*   SpecEnhanced SemanticGapAnalyzer.enhanced_semantic_match              *)
(*                (src/enhanced_semantic_evaluation.py);                   *)
(*   SpecRuns     repeated runs on one evaluator object.                   *)
(* The variables of all components are declared together; a component's   *)
(* specification holds the other components at rest.                       *)
(*                                                                         *)
(* Transcripts and questions are sequences of whitespace-separated tokens, *)
(* a token being a TLA+ string; the texts the match evaluators work on are *)
(* sequences of characters. Durations (processing_time) are not modelled;  *)
(* the time of day is modelled where it orders things.                     *)
(***************************************************************************)
EXTENDS Integers, Sequences, FiniteSets, TLC

VARIABLES
    max_retries,          \* ask_ai_with_retry: the max_retries argument
    attempt,              \* ask_ai_with_retry: the loop variable of range(max_retries)
    retry_pc,             \* "idle" | "loop" | "returned" | "raised"
    attempts_log,         \* one entry per request issued: its class, status and sleeps
    retry_result,         \* the (text, success) pair returned, or the exception raised
    conversation_data,    \* ArchitectureComparison.conversation_data.messages
    conversation_chunks,  \* Architecture2_LLM_RAG.conversation_chunks
    index_source,         \* the transcript conversation_chunks was built from
    rag_last,             \* what the last call on the RAG object did and returned
    ground_truth,         \* the ground_truth argument of the match evaluators
    ai_response,          \* the ai_response argument of the match evaluators
    verdicts,             \* what each evaluator did on (ai_response, ground_truth)
    match_question,       \* the question argument of enhanced_semantic_match
    enhanced,             \* what enhanced_semantic_match returned on the three arguments
    full_text,            \* the transcript text handed to the full-context strategy
    pure_sent,            \* the context of the last model call of Architecture1_PureLLM
    pure_record,          \* the last record Architecture1_PureLLM.answer_question returned
    gpt_pc,               \* test_gpt4_question: "idle" | "loop" | "returned"
    gpt_question,         \* test_gpt4_question: the question argument
    gpt_conversation,     \* test_gpt4_question: the variable conversation
    gpt_attempt,          \* test_gpt4_question: the loop variable attempt
    gpt_sent,             \* test_gpt4_question: the context of the last model call
    gpt_sleeps,           \* test_gpt4_question: the time.sleep() calls made
    gpt_record,           \* test_gpt4_question: the record returned
    test_questions,       \* run_comparison: the test_questions argument
    cmp_pc,               \* run_comparison: "ready" | "loop" | "done" | "raised"
    cmp_i,                \* run_comparison: the loop variable i
    cmp_arch,             \* run_comparison: the position of the inner loop in self.architectures
    question_results,     \* run_comparison: question_results
    all_results,          \* run_comparison: all_results
    comparison_results,   \* ArchitectureComparison.results
    calls,                \* the answer_question calls run_comparison made, in order
    cmp_error,            \* the class of the exception that left run_comparison
    batch_n,              \* evaluate_batch: len(questions); question i has question_id i
    max_workers,          \* FastAIEvaluator.max_workers
    batch_pc,             \* the calling thread: "ready" | "loop" | "acquire" | "locked" | "release" | "returned"
    futures,              \* per question_id, the state of its future and the answer of ask_ai_agent
    current,              \* the question_id of the future the calling thread is processing
    lock,                 \* FastAIEvaluator.lock: "free" | "held"
    completed_count,      \* evaluate_batch: completed_count
    results,              \* FastAIEvaluator.results
    appended,             \* the question_ids in the order their results were appended
    questions_file,       \* evaluate_questions: the questions_file argument
    server,               \* whether the server at base_url answers during the run: "up" | "down"
    resume_pc,            \* evaluate_questions: "idle" | "loop" | "returned" | "raised"
    run_no,               \* the number of evaluate_questions calls so far, which is datetime.now()
    start_question,       \* evaluate_questions: start_question
    question_num,         \* evaluate_questions: question_num of the last pass of the loop
    eval_results,         \* evaluate_questions: the local list results
    report,               \* evaluate_questions: the report returned
    intermediate_files,   \* the question_evaluation_intermediate_*of*.json files on disk
    loaded,               \* the detailed_results the run resumed from, if it resumed
    asked,                \* the question numbers the run passed to ask_ai_question, in order
    drv_pc,               \* main of gpt4_complete_test.py: "idle" | "loop" | "returned" | "raised"
    drv_questions,        \* main: len(test_questions)
    drv_api,              \* whether the model API answers during the run: "up" | "down"
    drv_results,          \* main: the list results
    drv_files,            \* the gpt4_complete_*.json files main has written
    conversation_source,  \* the lines of the file at conversation_file, or NoSuchFile
    script_source,        \* the lines of conversation_script.txt, or NoSuchFile
    load_pc,              \* main of architecture_comparison.py: "start" | "questions" | "constructed" | "comparing"
    loaded_questions,     \* main: test_questions
    loaded_messages,      \* ConversationData.messages of the comparison main constructs
    load_outcomes,        \* what each loader call did: the exception that left it, or none
    recent,               \* the last get_recent_messages call: its limit and what it returned
    ask_pc,               \* the pass of the loop: "idle" | "posting" | "sleeping" | "raised"
    ask_question_num,     \* evaluate_questions: question_num of the pass
    ask_attempt,          \* ask_ai_question: the loop variable attempt
    server_newest_ai,     \* the newest AI message of the list GET /api/messages returns, if any
    server_pending,       \* the questions the server has received and not yet answered
    ask_records,          \* the results of the passes, each with what its call did
    evaluator_class,      \* the class of the evaluator object the runs are made on
    object_results,       \* self.results of the evaluator object
    run_questions,        \* the number of questions of the last run
    run_report,           \* what the last run returned
    runs_done             \* the number of runs made on the object

vars == <<max_retries, attempt, retry_pc, attempts_log, retry_result,
          conversation_data, conversation_chunks, index_source, rag_last,
          ground_truth, ai_response, verdicts, match_question, enhanced,
          full_text, pure_sent, pure_record, gpt_pc, gpt_question,
          gpt_conversation, gpt_attempt, gpt_sent, gpt_sleeps, gpt_record,
          test_questions, cmp_pc, cmp_i, cmp_arch, question_results,
          all_results, comparison_results, calls, cmp_error, batch_n,
          max_workers, batch_pc, futures, current, lock, completed_count,
          results, appended, questions_file, server, resume_pc, run_no,
          start_question, question_num, eval_results, report,
          intermediate_files, loaded, asked, drv_pc, drv_questions, drv_api,
          drv_results, drv_files, conversation_source, script_source, load_pc,
          loaded_questions, loaded_messages, load_outcomes, recent, ask_pc,
          ask_question_num, ask_attempt, server_newest_ai, server_pending,
          ask_records, evaluator_class, object_results, run_questions,
          run_report, runs_done>>

retryVars == <<max_retries, attempt, retry_pc, attempts_log, retry_result>>
ragVars == <<conversation_data, conversation_chunks, index_source, rag_last>>
matchVars == <<ground_truth, ai_response, verdicts, match_question, enhanced>>
fullVars == <<full_text, pure_sent, pure_record, gpt_pc, gpt_question,
               gpt_conversation, gpt_attempt, gpt_sent, gpt_sleeps, gpt_record>>
compareVars == <<test_questions, cmp_pc, cmp_i, cmp_arch, question_results,
                  all_results, comparison_results, calls, cmp_error>>
batchVars == <<batch_n, max_workers, batch_pc, futures, current, lock,
                completed_count, results, appended>>
resumeVars == <<questions_file, server, resume_pc, run_no, start_question,
                 question_num, eval_results, report, intermediate_files,
                 loaded, asked>>
driverVars == <<drv_pc, drv_questions, drv_api, drv_results, drv_files>>
loadVars == <<conversation_source, script_source, load_pc, loaded_questions,
               loaded_messages, load_outcomes, recent>>
askVars == <<ask_pc, ask_question_num, ask_attempt, server_newest_ai,
              server_pending, ask_records>>
runsVars == <<evaluator_class, object_results, run_questions, run_report,
               runs_done>>
gptVars == <<gpt_pc, gpt_question, gpt_conversation, gpt_attempt, gpt_sent, gpt_sleeps,
            gpt_record>>

\* the variables of the other components, which a component's steps leave alone
exceptRetry == <<ragVars, matchVars, fullVars, compareVars, batchVars,
                   resumeVars, driverVars, loadVars, askVars, runsVars>>
exceptRag == <<retryVars, matchVars, fullVars, compareVars, batchVars,
                 resumeVars, driverVars, loadVars, askVars, runsVars>>
exceptMatch == <<retryVars, ragVars, fullVars, compareVars, batchVars,
                   resumeVars, driverVars, loadVars, askVars, runsVars>>
exceptFull == <<retryVars, ragVars, matchVars, compareVars, batchVars,
                  resumeVars, driverVars, loadVars, askVars, runsVars>>
exceptCompare == <<retryVars, ragVars, matchVars, fullVars, batchVars,
                     resumeVars, driverVars, loadVars, askVars, runsVars>>
exceptBatch == <<retryVars, ragVars, matchVars, fullVars, compareVars,
                   resumeVars, driverVars, loadVars, askVars, runsVars>>
exceptResume == <<retryVars, ragVars, matchVars, fullVars, compareVars,
                    batchVars, driverVars, loadVars, askVars, runsVars>>
exceptDriver == <<retryVars, ragVars, matchVars, fullVars, compareVars,
                    batchVars, resumeVars, loadVars, askVars, runsVars>>
exceptLoad == <<retryVars, ragVars, matchVars, fullVars, compareVars,
                  batchVars, resumeVars, driverVars, askVars, runsVars>>
exceptAsk == <<retryVars, ragVars, matchVars, fullVars, compareVars, batchVars,
                 resumeVars, driverVars, loadVars, runsVars>>
exceptRuns == <<retryVars, ragVars, matchVars, fullVars, compareVars,
                  batchVars, resumeVars, driverVars, loadVars, askVars>>
exceptCompareAndRag == <<retryVars, matchVars, fullVars, batchVars, resumeVars,
                       driverVars, loadVars, askVars, runsVars>>

(***************************************************************************)
(* Bounds of the model.                                                    *)
(***************************************************************************)
MaxRetriesBound == 5     \* max_retries ranges over 0..MaxRetriesBound
MaxLen == 22             \* transcripts hold 0..MaxLen messages
MaxTopK == 4             \* top_k ranges over 0..MaxTopK
MaxQuestions == 3        \* run_comparison is given 0..MaxQuestions questions
MaxBatch == 3            \* evaluate_batch is given 0..MaxBatch questions
MaxResumeQuestions == 11 \* the longest questions file of evaluate_questions
MaxRuns == 3             \* evaluate_questions is called at most MaxRuns times
MaxMainQuestions == 21   \* main of gpt4_complete_test.py loads 0..MaxMainQuestions questions
MaxAskQuestions == 2     \* a run of evaluate_questions with its requests asks 0..MaxAskQuestions questions
MaxFileLines == 2        \* the conversation and the question file hold 0..MaxFileLines lines
MaxRunQuestions == 2     \* a run on an evaluator object has 1..MaxRunQuestions questions

(***************************************************************************)
(* Text helpers.                                                           *)
(***************************************************************************)
\* str.lower(), token by token, over the vocabulary of the model.
Lower(w) ==
    CASE w = "Having" -> "having"
      [] w = "Trouble" -> "trouble"
      [] w = "Camping" -> "camping"
      [] w = "Hiking" -> "hiking"
      [] w = "Jake:" -> "jake:"
      [] w = "Sarah:" -> "sarah:"
      [] w = "Emma:" -> "emma:"
      [] w = "Who" -> "who"
      [] w = "Rate" -> "rate"
      [] OTHER -> w

LowerAll(s) == [i \in 1..Len(s) |-> Lower(s[i])]

\* needle in haystack, for token sequences
Contains(haystack, needle) ==
    \E i \in 0..(Len(haystack) - Len(needle)) :
        \A j \in 1..Len(needle) : haystack[i + j] = needle[j]

Sentinel == <<"having", "trouble", "responding">>

(***************************************************************************)
(* The answering service, as ask_ai_with_retry sees it: what one           *)
(* session.post() call can do.                                             *)
(***************************************************************************)
Contents ==
    { <<"Jake", "went", "Camping">>,
      <<>>,
      <<"I'm", "Having", "Trouble", "responding", "right", "now">> }

NoBody == [shape |-> "none", ai |-> "none", content |-> <<>>]

\* JSON bodies of a 200 reply: an object with an aiResponse object, an object
\* without the key, an object whose aiResponse is null, a JSON list, and a body
\* that is not JSON.
Bodies ==
    {[shape |-> "object", ai |-> "object", content |-> c] : c \in Contents}
    \cup {[shape |-> "object", ai |-> a, content |-> <<>>] : a \in {"missing", "null"}}
    \cup {[shape |-> sh, ai |-> "none", content |-> <<>>] : sh \in {"list", "not_json"}}

HttpDate == "Wed, 21 Oct 2015 07:28:00 GMT"
RetryAfterHeaders == {"absent", "0", "4", HttpDate}
ErrorStatuses == {404, 503}

Replies ==
    {[kind |-> "response", status |-> 200, body |-> b, retry_after |-> "absent"] :
        b \in Bodies}
    \cup {[kind |-> "response", status |-> 429, body |-> NoBody, retry_after |-> h] :
        h \in RetryAfterHeaders}
    \cup {[kind |-> "response", status |-> st, body |-> NoBody, retry_after |-> "absent"] :
        st \in ErrorStatuses}
    \cup {[kind |-> "exception", status |-> 0, body |-> NoBody, retry_after |-> "absent"]}

(***************************************************************************)
(* ResilientAIEvaluator.ask_ai_with_retry                                  *)
(***************************************************************************)
DefaultRetryAfter == 2

\* int(s) for the header texts of the model: the decimal literals parse.
IsIntLiteral(s) == \E n \in 0..9 : ToString(n) = s
IntOf(s) == CHOOSE n \in 0..9 : ToString(n) = s

\* range(max_retries): is there an iteration with this index
LoopContinuesOneMore(a, m) == a <= m
LoopContinues(a, m) == a < m

\* (2 ** attempt) + 1
BackoffWaitLinear(a) == (2 * a) + 1
BackoffWait(a) == (2 ^ a) + 1

Sleep(kind, secs) == [kind |-> kind, secs |-> secs]

\* the end of an iteration that falls out of the try statement
BackoffSleeps(a) == <<Sleep("backoff", BackoffWait(a))>>

\* the 429 branch: sleep retry_after + 1, then continue
RateLimitSleepsThenBackoff(retry_after, a) ==
    <<Sleep("rate_limit", retry_after + 1)>> \o BackoffSleeps(a)
RateLimitSleeps(retry_after, a) == <<Sleep("rate_limit", retry_after + 1)>>

\* ai_response and "having trouble responding" not in ai_response.lower()
IsUsable(content) == content # <<>> /\ ~Contains(LowerAll(content), Sentinel)

NoResult == [text |-> <<>>, success |-> FALSE, raised |-> "none"]
Returned(text, success) == [text |-> text, success |-> success, raised |-> "none"]
Raised(exc) == [text |-> <<>>, success |-> FALSE, raised |-> exc]

\* f"Failed after {max_retries} attempts"
FailedText(m) == <<"Failed", "after", ToString(m), "attempts">>

Outcome(class, sleeps, next, result) ==
    [class |-> class, sleeps |-> sleeps, next |-> next, result |-> result]

\* One iteration of the loop, given what session.post() did: the set of ways
\* the iteration can end. Only requests.exceptions.RequestException is caught.
AttemptOutcomes(reply, a) ==
    IF reply.kind = "exception"
    THEN {Outcome("transient_error", BackoffSleeps(a), "loop", NoResult)}
    ELSE IF reply.status = 200
    THEN CASE reply.body.shape = "not_json" ->
                \* response.json() raises: requests' JSONDecodeError is a
                \* RequestException from requests 2.27 on, a plain ValueError before
                { Outcome("transient_error", BackoffSleeps(a), "loop", NoResult),
                  Outcome("malformed", <<>>, "raised", Raised("ValueError")) }
           [] reply.body.shape = "list" \/ reply.body.ai = "null" ->
                \* .get on a list, or on None
                {Outcome("malformed", <<>>, "raised", Raised("AttributeError"))}
           [] OTHER ->
                IF IsUsable(reply.body.content)
                THEN {Outcome("ok", <<>>, "returned", Returned(reply.body.content, TRUE))}
                ELSE {Outcome("empty_response", BackoffSleeps(a), "loop", NoResult)}
    ELSE IF reply.status = 429
    THEN IF reply.retry_after = "absent"
         THEN {Outcome("rate_limited", RateLimitSleeps(DefaultRetryAfter, a), "loop", NoResult)}
         ELSE IF IsIntLiteral(reply.retry_after)
         THEN {Outcome("rate_limited", RateLimitSleeps(IntOf(reply.retry_after), a),
                       "loop", NoResult)}
         ELSE {Outcome("malformed", <<>>, "raised", Raised("ValueError"))}
    ELSE {Outcome("transient_error", BackoffSleeps(a), "loop", NoResult)}

LogEntry(reply, o) ==
    [class |-> o.class, status |-> reply.status, header |-> reply.retry_after,
     sleeps |-> o.sleeps]

\* a call of ask_ai_with_retry(question, m) starts
AskAiWithRetry(m) ==
    /\ retry_pc \in {"idle", "returned", "raised"}
    /\ max_retries' = m
    /\ attempt' = 0
    /\ attempts_log' = <<>>
    /\ retry_result' = NoResult
    /\ retry_pc' = "loop"
    /\ UNCHANGED exceptRetry

\* one iteration of the for loop
Attempt(reply) ==
    /\ retry_pc = "loop"
    /\ LoopContinues(attempt, max_retries)
    /\ \E o \in AttemptOutcomes(reply, attempt) :
          /\ attempts_log' = Append(attempts_log, LogEntry(reply, o))
          /\ retry_pc' = o.next
          /\ retry_result' = o.result
          /\ attempt' = IF o.next = "loop" THEN attempt + 1 ELSE attempt
    /\ UNCHANGED <<max_retries, exceptRetry>>

\* the loop is exhausted
ReturnFailure ==
    /\ retry_pc = "loop"
    /\ ~LoopContinues(attempt, max_retries)
    /\ retry_pc' = "returned"
    /\ retry_result' = Returned(FailedText(max_retries), FALSE)
    /\ UNCHANGED <<max_retries, attempt, attempts_log, exceptRetry>>

(***************************************************************************)
(* ConversationData: the transcripts of the model. Message k of a          *)
(* transcript carries its number, so that no two messages are equal, and   *)
(* a topic that changes every `period` messages.                           *)
(***************************************************************************)
Topics == <<"Hiking", "camping", "swimming">>
Periods == {1, 4, 9}
OtherLengths == {0, 3, 9}

SpeakerOf(k) == IF k % 5 = 2 THEN "Emma" ELSE IF k % 2 = 0 THEN "Jake" ELSE "Sarah"

Message(k, period) ==
    [speaker |-> SpeakerOf(k),
     content |-> <<"msg", ToString(k), "likes", Topics[((k \div period) % 3) + 1]>>]

\* ConversationData.messages of a transcript of n messages
Transcript(n, period) == [i \in 1..n |-> Message(i - 1, period)]

Transcripts == {Transcript(n, p) : n \in 0..MaxLen, p \in Periods}
\* transcripts other than the comparison's own that a caller may pass
OtherTranscripts == {Transcript(n, 4) : n \in OtherLengths}

Questions ==
    { <<"Who", "likes", "Hiking">>,
      <<"Camping", "camping", "swimming", "Emma:">>,
      <<>> }

(***************************************************************************)
(* Architecture2_LLM_RAG                                                   *)
(***************************************************************************)
chunk_size == 10
overlap == 3

Min(a, b) == IF a < b THEN a ELSE b
Range(s) == {s[i] : i \in 1..Len(s)}

\* messages[lo:hi] for 0 <= lo, 0 <= hi
Slice(s, lo, hi) == SubSeq(s, lo + 1, Min(hi, Len(s)))

\* f"{msg['speaker']}: {msg['content']}", as its tokens
RenderLine(msg) == <<msg.speaker \o ":">> \o msg.content

\* '\n'.join(...): a text is the sequence of its lines
RenderText(messages) == [i \in 1..Len(messages) |-> RenderLine(messages[i])]

\* set(text.lower().split()) of a text of several lines
TextWords(text) == UNION {Range(LowerAll(text[i])) : i \in 1..Len(text)}

\* set(question.lower().split())
QuestionWords(question) == Range(LowerAll(question))

\* the step of range(0, len(messages), chunk_size - overlap)
ChunkStepNoOverlap == chunk_size
ChunkStep == chunk_size - overlap

\* min(i + chunk_size, len(messages))
ChunkEndUnclamped(i, n) == i + chunk_size
ChunkEnd(i, n) == Min(i + chunk_size, n)

\* the dictionary appended for the chunk that starts at index i
Chunk(messages, i) ==
    [id |-> i,
     text |-> RenderText(Slice(messages, i, i + chunk_size)),
     messages |-> Slice(messages, i, i + chunk_size),
     start_index |-> i,
     end_index |-> ChunkEnd(i, Len(messages))]

\* len(range(0, n, step))
RangeLen(n, step) == (n + step - 1) \div step

\* the list index_conversation builds
BuildChunks(messages) ==
    [j \in 1..RangeLen(Len(messages), ChunkStep) |-> Chunk(messages, (j - 1) * ChunkStep)]

\* len(question_words.intersection(chunk_words))
Score(question, chunk) ==
    Cardinality(QuestionWords(question) \cap TextWords(chunk.text))

\* [(score, chunk) for chunk in self.conversation_chunks]
ScoredChunks(chunks, question) ==
    [i \in 1..Len(chunks) |-> [score |-> Score(question, chunks[i]), chunk |-> chunks[i]]]

\* list.sort(key=score, reverse=True): a stable sort, so that entries of equal
\* score keep their order. Built by inserting each entry after the entries
\* whose score is not lower.
RECURSIVE InsertDesc(_, _)
InsertDesc(sorted, e) ==
    IF sorted = <<>> THEN <<e>>
    ELSE IF Head(sorted).score >= e.score
         THEN <<Head(sorted)>> \o InsertDesc(Tail(sorted), e)
         ELSE <<e>> \o sorted

RECURSIVE InsertDescBeforeTies(_, _)
InsertDescBeforeTies(sorted, e) ==
    IF sorted = <<>> THEN <<e>>
    ELSE IF Head(sorted).score > e.score
         THEN <<Head(sorted)>> \o InsertDescBeforeTies(Tail(sorted), e)
         ELSE <<e>> \o sorted

RECURSIVE SortDescReversingTies(_)
SortDescReversingTies(scored) ==
    IF scored = <<>> THEN <<>>
    ELSE InsertDescBeforeTies(SortDescReversingTies(SubSeq(scored, 1, Len(scored) - 1)),
                              scored[Len(scored)])

RECURSIVE SortDesc(_)
SortDesc(scored) ==
    IF scored = <<>> THEN <<>>
    ELSE InsertDesc(SortDesc(SubSeq(scored, 1, Len(scored) - 1)), scored[Len(scored)])

\* retrieve_relevant_chunks(question, top_k) on a chunk list, for top_k >= 0
RetrieveFrom(chunks, question, top_k) ==
    LET sorted == SortDesc(ScoredChunks(chunks, question))
    IN  [i \in 1..Min(top_k, Len(sorted)) |-> sorted[i].chunk]

ChunkIds(chunks) == [i \in 1..Len(chunks) |-> chunks[i].id]

\* openai.chat.completions.create: an answer, or an exception
LlmOutcomes ==
    { [ok |-> TRUE, text |-> <<"Jake", "likes", "Hiking">>],
      [ok |-> FALSE, text |-> <<"Connection", "error.">>] }

RagName == "LLM + RAG"

\* the dictionary answer_question returns; the record of a failed call has no
\* relevant_chunks entry, modelled as the empty list
RagRecord(question, llm, relevant) ==
    IF llm.ok
    THEN [architecture |-> RagName, question |-> question, answer |-> llm.text,
          chunks_retrieved |-> Len(relevant), relevant_chunks |-> ChunkIds(relevant),
          success |-> TRUE]
    ELSE [architecture |-> RagName, question |-> question,
          answer |-> <<"Error:">> \o llm.text,
          chunks_retrieved |-> 0, relevant_chunks |-> <<>>, success |-> FALSE]

NoRecord ==
    [architecture |-> "", question |-> <<>>, answer |-> <<>>, chunks_retrieved |-> 0,
     relevant_chunks |-> <<>>, success |-> FALSE]

LastCall(op, question, transcript, top_k, built, retrieved, record) ==
    [op |-> op, question |-> question, transcript |-> transcript, top_k |-> top_k,
     built |-> built, retrieved |-> retrieved, record |-> record]

\* if not self.conversation_chunks
NeedsIndex(chunks) == chunks = <<>>

\* rag.index_conversation(self.conversation_data)
IndexConversation ==
    /\ conversation_chunks' = BuildChunks(conversation_data)
    /\ index_source' = conversation_data
    /\ rag_last' = LastCall("index", <<>>, conversation_data, 0, TRUE, <<>>, NoRecord)
    /\ UNCHANGED <<conversation_data, exceptRag>>

\* rag.retrieve_relevant_chunks(question, top_k)
RetrieveRelevantChunks(question, top_k) ==
    /\ rag_last' = LastCall("retrieve", question, index_source, top_k, FALSE,
                            RetrieveFrom(conversation_chunks, question, top_k), NoRecord)
    /\ UNCHANGED <<conversation_data, conversation_chunks, index_source, exceptRag>>

\* rag.answer_question(question, conversation_data), with what the model call did
AnswerQuestion(question, t, llm) ==
    LET built == NeedsIndex(conversation_chunks)
        chunks == IF built THEN BuildChunks(t) ELSE conversation_chunks
        relevant == RetrieveFrom(chunks, question, 5)
    IN  /\ conversation_chunks' = chunks
        /\ index_source' = IF built THEN t ELSE index_source
        /\ rag_last' = LastCall("answer", question, t, 5, built, relevant,
                                RagRecord(question, llm, relevant))
        /\ UNCHANGED <<conversation_data, exceptRag>>

(***************************************************************************)
(* Character-level strings, for the match evaluators: here a string is     *)
(* the sequence of its characters, each a one-character TLA+ string.       *)
(***************************************************************************)
Chars(s) == [i \in 1..Len(s) |-> SubSeq(s, i, i)]

\* the character U+1F60A, which is neither \w nor \s
Emoji == "U+1F60A"

LowerCaseLetters == Chars("abcdefghijklmnopqrstuvwxyz")
UpperCaseLetters == Chars("ABCDEFGHIJKLMNOPQRSTUVWXYZ")
DigitChars == Chars("0123456789")

\* \s and \w of the re module
IsSpace(c) == c \in {" ", "\n", "\t"}
IsWordChar(c) ==
    c \in Range(LowerCaseLetters) \cup Range(UpperCaseLetters) \cup Range(DigitChars)
          \cup {"_"}

\* str.lower()
LowerChar(c) ==
    IF \E i \in 1..26 : UpperCaseLetters[i] = c
    THEN LowerCaseLetters[CHOOSE i \in 1..26 : UpperCaseLetters[i] = c]
    ELSE c
LowerStr(s) == [i \in 1..Len(s) |-> LowerChar(s[i])]

\* re.sub(r'[^\w\s]', '', s)
IsKept(c) == IsWordChar(c) \/ IsSpace(c)
RemovePunctuation(s) == SelectSeq(s, IsKept)

\* str.strip()
RECURSIVE LStrip(_)
LStrip(s) == IF s # <<>> /\ IsSpace(Head(s)) THEN LStrip(Tail(s)) ELSE s
RECURSIVE RStrip(_)
RStrip(s) ==
    IF s # <<>> /\ IsSpace(s[Len(s)]) THEN RStrip(SubSeq(s, 1, Len(s) - 1)) ELSE s
Strip(s) == RStrip(LStrip(s))

\* re.sub(r'[^\w\s]', '', text.lower()).strip()
Clean(text) == Strip(RemovePunctuation(LowerStr(text)))

\* the literal lit stands in s from position pos on
MatchesAt(s, pos, lit) ==
    /\ pos + Len(lit) - 1 <= Len(s)
    /\ \A j \in 1..Len(lit) : s[pos + j - 1] = lit[j]

AllWordChars(s, from, to) == \A i \in from..to : IsWordChar(s[i])
AllSpaces(s, from, to) == \A i \in from..to : IsSpace(s[i])

\* the text after the longest run of whitespace that starts at position pos
SkipSpaces(s, pos) == LStrip(SubSeq(s, pos, Len(s)))

\* The (w, m) for which 'hey ', w word characters, m whitespace characters
\* and then lit match at the start of s; minSpaces is 0 for \s* and 1 for \s+.
HeyMatches(s, lit, minSpaces) ==
    IF ~MatchesAt(s, 1, Chars("hey ")) THEN {}
    ELSE { wm \in (1..Len(s)) \X (minSpaces..Len(s)) :
             /\ 4 + wm[1] + wm[2] <= Len(s)
             /\ AllWordChars(s, 5, 4 + wm[1])
             /\ AllSpaces(s, 5 + wm[1], 4 + wm[1] + wm[2])
             /\ MatchesAt(s, 5 + wm[1] + wm[2], lit) }

\* \w+ is greedy: the match the re module reports has the longest w
GreedyMatch(matches) ==
    CHOOSE wm \in matches : \A other \in matches : other[1] <= wm[1]

\* re.sub(r'^(hey \w+\s*according to.*?)', '', s): the lazy .*? matches nothing
RemoveHeyAccordingTo(s) ==
    LET lit == Chars("according to")
        matches == HeyMatches(s, lit, 0)
    IN  IF matches = {} THEN s
        ELSE LET wm == GreedyMatch(matches)
             IN  SubSeq(s, 5 + wm[1] + wm[2] + Len(lit), Len(s))

\* re.sub(r'^(hey \w+\s+according to the knowledge graph\s*)', '', s)
RemoveHeyKnowledgeGraph(s) ==
    LET lit == Chars("according to the knowledge graph")
        matches == HeyMatches(s, lit, 1)
    IN  IF matches = {} THEN s
        ELSE LET wm == GreedyMatch(matches)
             IN  SkipSpaces(s, 5 + wm[1] + wm[2] + Len(lit))

\* re.sub(r'\s*EMOJI\s*$', '', s)
RemoveTrailingEmoji(s) ==
    LET t == RStrip(s)
    IN  IF t # <<>> /\ t[Len(t)] = Emoji THEN RStrip(SubSeq(t, 1, Len(t) - 1)) ELSE s

\* re.sub(r'\s+EMOJI$', '', s)
RemoveSpacedEmoji(s) ==
    IF Len(s) >= 2 /\ s[Len(s)] = Emoji /\ IsSpace(s[Len(s) - 1])
    THEN RStrip(SubSeq(s, 1, Len(s) - 1))
    ELSE s

\* set(s.split()): the maximal runs of characters that are not whitespace
SplitWords(s) ==
    { SubSeq(s, ij[1], ij[2]) :
        ij \in { p \in (1..Len(s)) \X (1..Len(s)) :
                   /\ p[1] <= p[2]
                   /\ \A i \in p[1]..p[2] : ~IsSpace(s[i])
                   /\ p[1] = 1 \/ IsSpace(s[p[1] - 1])
                   /\ p[2] = Len(s) \/ IsSpace(s[p[2] + 1]) } }

\* set(word for word in s.split() if len(word) > 2)
LongWords(s) == { w \in SplitWords(s) : Len(w) > 2 }

WordSet(words) == { Chars(words[i]) : i \in 1..Len(words) }

(***************************************************************************)
(* The match evaluators: evaluate_semantic_match of ResilientAIEvaluator   *)
(* (src/automated_evaluation.py), basic_semantic_match of                  *)
(* SemanticGapAnalyzer (src/enhanced_semantic_evaluation.py) and           *)
(* smart_match of FastAIEvaluator (src/fast_evaluation.py).                *)
(*                                                                         *)
(* A score is the fraction num/den. `below` says that the float the code   *)
(* computes lies just under that fraction: 0.3 + 0.3 + 0.3 and 0.6 + 0.3   *)
(* are 0.8999999999999999 in double arithmetic, so a sum of exactly 9/10   *)
(* that includes a bonus does not reach the 0.9 threshold.                 *)
(***************************************************************************)
Score01(num, den, below) == [num |-> num, den |-> den, below |-> below]
Zero == Score01(0, 1, FALSE)
One == Score01(1, 1, FALSE)
FourFifths == Score01(4, 5, FALSE)

\* score >= a/10
AtLeast(score, a) ==
    /\ score.num * 10 >= a * score.den
    /\ ~(score.below /\ score.num * 10 = a * score.den)

\* what an evaluator call does: the (match, reason, confidence) it returns,
\* with the word counts behind it and the number of bonuses added, or an exception
Verdict(match, reason, confidence, matched, outOf, bonus) ==
    [raised |-> FALSE, match |-> match, reason |-> reason, confidence |-> confidence,
     matched |-> matched, outOf |-> outOf, bonus |-> bonus]
Fixed(match, reason, confidence) == Verdict(match, reason, confidence, 0, 0, 0)
ZeroDivisionError ==
    [raised |-> TRUE, match |-> FALSE, reason |-> "ZeroDivisionError",
     confidence |-> Zero, matched |-> 0, outOf |-> 0, bonus |-> 0]

FailedAfter == Chars("failed after")
HavingTroubleResponding == Chars("having trouble responding")

\* if not ai_response or sentinel in ai_response.lower()
CaseSensitiveInvalid(response, sentinel) == response = <<>> \/ Contains(response, sentinel)
IsInvalid(response, sentinel) ==
    response = <<>> \/ Contains(LowerStr(response), sentinel)

ResilientStopWords ==
    WordSet(<<"the", "and", "or", "but", "in", "on", "at", "to", "for", "of", "with",
              "by", "is", "was", "are", "were", "has", "had", "have", "his", "her",
              "their", "this", "that", "they", "them", "will", "would", "could",
              "should">>)
BasicStopWords ==
    WordSet(<<"the", "and", "or", "but", "in", "on", "at", "to", "for", "of", "with",
              "by", "is", "was", "are", "were", "has", "had", "have">>)
SmartStopWords ==
    WordSet(<<"the", "a", "an", "and", "or", "but", "in", "on", "at", "to", "for",
              "of", "with", "by", "is", "was", "are", "were", "he", "she", "they",
              "his", "her", "their">>)

semantic_pairs ==
    << [truth |-> WordSet(<<"terrified", "afraid">>),
        response |-> WordSet(<<"phobia", "scared", "fearful", "frightened">>)],
       [truth |-> WordSet(<<"dislikes", "hates">>),
        response |-> WordSet(<<"doesnt", "like", "not", "fan">>)],
       [truth |-> WordSet(<<"enjoys", "likes">>),
        response |-> WordSet(<<"prefers", "loves", "into">>)],
       [truth |-> WordSet(<<"nervous", "anxious">>),
        response |-> WordSet(<<"worried", "stressed", "concerned">>)] >>

\* truth_clean in response_clean
ExactSubstringReversed(truth_clean, response_clean) == Contains(truth_clean, response_clean)
ExactSubstring(truth_clean, response_clean) == Contains(response_clean, truth_clean)

\* any(word in text for word in synonyms): `in` on strings is substring search
AnyWithin(synonyms, text) == \E word \in synonyms : Contains(text, word)

\* the pairs of semantic_pairs whose condition holds
BonusPairs(truth_clean, response_clean) ==
    { p \in 1..Len(semantic_pairs) :
        /\ AnyWithin(semantic_pairs[p].truth, truth_clean)
        /\ AnyWithin(semantic_pairs[p].response, response_clean) }

\* min(1.0, overlap_ratio + semantic_bonus), semantic_bonus being 0.3 per pair
TotalScoreUncapped(matched, outOf, pairs) ==
    Score01(10 * matched + 3 * pairs * outOf, 10 * outOf, FALSE)
TotalScore(matched, outOf, pairs) ==
    Score01(Min(10 * outOf, 10 * matched + 3 * pairs * outOf), 10 * outOf,
            pairs >= 1 /\ 10 * matched + 3 * pairs * outOf = 9 * outOf)

\* the threshold chain of evaluate_semantic_match
ResilientThresholds(total, matched, outOf, pairs) ==
    IF AtLeast(total, 9) THEN Verdict(TRUE, "Excellent match", total, matched, outOf, pairs)
    ELSE IF AtLeast(total, 7)
    THEN Verdict(TRUE, "Good match", total, matched, outOf, pairs)
    ELSE IF AtLeast(total, 5)
    THEN Verdict(TRUE, "Acceptable match", total, matched, outOf, pairs)
    ELSE IF AtLeast(total, 3)
    THEN Verdict(FALSE, "Weak match", total, matched, outOf, pairs)
    ELSE Verdict(FALSE, "No meaningful match", total, matched, outOf, pairs)

\* response_clean of evaluate_semantic_match
ResilientResponseClean(response) ==
    Strip(RemoveTrailingEmoji(RemoveHeyAccordingTo(Clean(response))))

\* ResilientAIEvaluator.evaluate_semantic_match(ground_truth, ai_response)
evaluate_semantic_match(truth, response) ==
    IF IsInvalid(response, FailedAfter) THEN Fixed(FALSE, "No valid response", Zero)
    ELSE
    LET truth_clean == Clean(truth)
        response_clean == ResilientResponseClean(response)
        truth_key_words == LongWords(truth_clean) \ ResilientStopWords
        response_key_words == LongWords(response_clean) \ ResilientStopWords
        matched == Cardinality(truth_key_words \cap response_key_words)
        outOf == Cardinality(truth_key_words)
        pairs == Cardinality(BonusPairs(truth_clean, response_clean))
    IN  IF ExactSubstring(truth_clean, response_clean)
        THEN Fixed(TRUE, "Exact substring match", One)
        ELSE IF truth_key_words = {}
        THEN Fixed(TRUE, "Only common words in ground truth", FourFifths)
        ELSE ResilientThresholds(TotalScore(matched, outOf, pairs), matched, outOf, pairs)

\* response_clean of basic_semantic_match: no strip after the substitutions
BasicResponseClean(response) == RemoveTrailingEmoji(RemoveHeyAccordingTo(Clean(response)))

\* SemanticGapAnalyzer.basic_semantic_match(ground_truth, ai_response)
basic_semantic_match(truth, response) ==
    IF IsInvalid(response, HavingTroubleResponding)
    THEN Fixed(FALSE, "No valid response", Zero)
    ELSE
    LET truth_clean == Clean(truth)
        response_clean == BasicResponseClean(response)
        truth_key_words == LongWords(truth_clean) \ BasicStopWords
        response_key_words == LongWords(response_clean) \ BasicStopWords
        matched == Cardinality(truth_key_words \cap response_key_words)
        outOf == Cardinality(truth_key_words)
        overlap_ratio == Score01(matched, outOf, FALSE)
    IN  IF ExactSubstring(truth_clean, response_clean)
        THEN Fixed(TRUE, "Exact substring match", One)
        ELSE IF truth_key_words = {} THEN Fixed(TRUE, "Only common words", FourFifths)
        ELSE IF AtLeast(overlap_ratio, 7)
        THEN Verdict(TRUE, "Strong overlap", overlap_ratio, matched, outOf, 0)
        ELSE IF AtLeast(overlap_ratio, 5)
        THEN Verdict(TRUE, "Good overlap", overlap_ratio, matched, outOf, 0)
        ELSE Verdict(FALSE, "Weak overlap", overlap_ratio, matched, outOf, 0)

\* response_clean of smart_match
SmartResponseClean(response) == RemoveSpacedEmoji(RemoveHeyKnowledgeGraph(Clean(response)))

\* FastAIEvaluator.smart_match(ground_truth, ai_response)
smart_match(truth, response) ==
    IF IsInvalid(response, HavingTroubleResponding)
    THEN Fixed(FALSE, "No valid response", Zero)
    ELSE
    LET truth_clean == Clean(truth)
        response_clean == SmartResponseClean(response)
        truth_words_filtered == SplitWords(truth_clean) \ SmartStopWords
        response_words_filtered == SplitWords(response_clean) \ SmartStopWords
        matched == Cardinality(truth_words_filtered \cap response_words_filtered)
        outOf == Cardinality(truth_words_filtered)
        overlap_ratio == Score01(matched, outOf, FALSE)
    IN  IF ExactSubstring(truth_clean, response_clean) THEN Fixed(TRUE, "Exact match", One)
        ELSE IF truth_words_filtered = {}
        THEN Fixed(TRUE, "Trivial match", FourFifths)
        ELSE IF outOf = 0 THEN ZeroDivisionError
        ELSE IF AtLeast(overlap_ratio, 8)
        THEN Verdict(TRUE, "Strong match", overlap_ratio, matched, outOf, 0)
        ELSE IF AtLeast(overlap_ratio, 6)
        THEN Verdict(TRUE, "Good match", overlap_ratio, matched, outOf, 0)
        ELSE IF AtLeast(overlap_ratio, 4)
        THEN Verdict(FALSE, "Partial match", overlap_ratio, matched, outOf, 0)
        ELSE Verdict(FALSE, "Weak match", overlap_ratio, matched, outOf, 0)

\* the expected answers of the question file
GroundTruths ==
    { Chars(""), Chars("Jake"), Chars("the"), Chars("it"), Chars("this"),
      Chars("failed"), Chars("Sarah loves hiking"), Chars("afraid and nervous"),
      Chars("Jake dislikes swimming"), Chars("Emma is terrified of spiders"),
      Chars("Jake went camping with Sarah"), Chars("afraid, nervous, hates"),
      Chars("Went to the LAKE.") }

\* the answers the evaluated systems gave
Responses ==
    { Chars(""),
      Chars("Hey Emma! According to the knowledge graph, Jake went camping ")
          \o <<Emoji>>,
      Chars("Failed after 5 attempts"),
      Chars("I'm Having Trouble responding right now."),
      Chars("The build failed after lunch"),
      Chars("Sarah is scared and worried"),
      Chars("She was afraid, scared and worried"),
      Chars("scared, worried, not ok"),
      Chars("Emma has a phobia"),
      Chars("Sarah loves swimming"),
      Chars("another pool"),
      Chars("Jake went home"),
      Chars("Jake"),
      Chars("Hey Jake according to Sarah they went to the lake") }

Evaluators == {"evaluate_semantic_match", "basic_semantic_match", "smart_match"}

NotCalled ==
    [raised |-> FALSE, match |-> FALSE, reason |-> "not called", confidence |-> Zero,
     matched |-> 0, outOf |-> 0, bonus |-> 0]

\* evaluator.evaluate_semantic_match(ground_truth, ai_response)
EvaluateSemanticMatch ==
    /\ verdicts' = [verdicts EXCEPT !["evaluate_semantic_match"] =
                        evaluate_semantic_match(ground_truth, ai_response)]
    /\ UNCHANGED <<ground_truth, ai_response, match_question, enhanced, exceptMatch>>

\* evaluator.basic_semantic_match(ground_truth, ai_response)
BasicSemanticMatch ==
    /\ verdicts' = [verdicts EXCEPT !["basic_semantic_match"] =
                        basic_semantic_match(ground_truth, ai_response)]
    /\ UNCHANGED <<ground_truth, ai_response, match_question, enhanced, exceptMatch>>

\* evaluator.smart_match(ground_truth, ai_response)
SmartMatch ==
    /\ verdicts' = [verdicts EXCEPT !["smart_match"] =
                        smart_match(ground_truth, ai_response)]
    /\ UNCHANGED <<ground_truth, ai_response, match_question, enhanced, exceptMatch>>

(***************************************************************************)
(* The secondary pass: analyze_semantic_gap and enhanced_semantic_match of *)
(* SemanticGapAnalyzer (src/enhanced_semantic_evaluation.py).              *)
(***************************************************************************)
\* the keys of kg_patterns in query_knowledge_graph_directly, in their order,
\* each with the number of relationships it returns
kg_patterns ==
    << [key |-> Chars("gifts"), relationships |-> 3],
       [key |-> Chars("vacation suggestion"), relationships |-> 1],
       [key |-> Chars("song on repeat"), relationships |-> 1],
       [key |-> Chars("tv show spoilers"), relationships |-> 1],
       [key |-> Chars("musical preferences"), relationships |-> 1],
       [key |-> Chars("who helped cheer"), relationships |-> 1] >>

\* query_knowledge_graph_directly(question_context): the number of
\* relationships of the first key found in the lowered question, 0 for []
QueryKnowledgeGraphDirectly(question_context) ==
    LET found == { p \in 1..Len(kg_patterns) :
                     Contains(LowerStr(question_context), kg_patterns[p].key) }
    IN  IF found = {} THEN 0
        ELSE kg_patterns[CHOOSE p \in found : \A r \in found : p <= r].relationships

GenericKeywords == {Chars("group collectively"), Chars("generally"), Chars("overall")}

\* the gap_analysis value of an answer that basic matching accepted: None
NoGapAnalysis == [present |-> FALSE, kg_relationships_found |-> 0, gap_type |-> "None"]

\* analyze_semantic_gap(question, ground_truth, ai_response)
analyze_semantic_gap(question, truth, response) ==
    LET kg_data == QueryKnowledgeGraphDirectly(question)
        lowered == LowerStr(response)
        gap_type ==
            IF \/ Contains(lowered, Chars("no specific mention"))
               \/ Contains(lowered, Chars("haven't been specifically mentioned"))
            THEN (IF kg_data > 0 THEN "extraction_failure" ELSE "missing_data")
            ELSE IF AnyWithin(GenericKeywords, lowered) THEN "specificity_loss"
            ELSE IF /\ Contains(response, Chars("according to the knowledge graph"))
                    /\ ~Contains(lowered, LowerStr(truth))
            THEN "semantic_disconnect"
            ELSE "unknown"
    IN  [present |-> TRUE, kg_relationships_found |-> kg_data, gap_type |-> gap_type]

semantic_equivalences ==
    << [truth |-> <<"gifts", "souvenirs">>,
        response |-> <<"presents", "keepsakes", "mementos">>],
       [truth |-> <<"nervous", "anxious">>,
        response |-> <<"worried", "stressed", "apprehensive">>],
       [truth |-> <<"enjoys", "likes">>,
        response |-> <<"prefers", "loves", "is into">>],
       [truth |-> <<"suggested", "advised">>,
        response |-> <<"recommended", "proposed", "mentioned">>],
       [truth |-> <<"terrified", "afraid">>,
        response |-> <<"scared", "frightened", "phobic">>],
       [truth |-> <<"collectively", "together">>,
        response |-> <<"emma jake sarah", "all of them", "the group">>] >>

\* the pairs of semantic_equivalences whose condition holds
Equivalences(truth, response) ==
    LET truth_lower == LowerStr(truth)
        response_lower == LowerStr(response)
    IN  { p \in 1..Len(semantic_equivalences) :
            /\ AnyWithin(WordSet(semantic_equivalences[p].truth), truth_lower)
            /\ AnyWithin(WordSet(semantic_equivalences[p].response), response_lower) }

SeventeenTwentieths == Score01(17, 20, FALSE)

\* the (is_correct, match_reason, confidence, gap_analysis) tuple; equivalence
\* holds the two terms the reason of an enhanced match names
EnhancedResult(match, reason, confidence, equivalence, gap_analysis) ==
    [match |-> match, reason |-> reason, confidence |-> confidence,
     equivalence |-> equivalence, gap_analysis |-> gap_analysis]

NotEnhanced == EnhancedResult(FALSE, "not called", Zero, <<>>, NoGapAnalysis)

\* SemanticGapAnalyzer.enhanced_semantic_match(ground_truth, ai_response, question)
enhanced_semantic_match(truth, response, question) ==
    LET basic == basic_semantic_match(truth, response)
        pairs == Equivalences(truth, response)
        first == CHOOSE p \in pairs : \A r \in pairs : p <= r
    IN  IF basic.match
        THEN EnhancedResult(TRUE, basic.reason, basic.confidence, <<>>, NoGapAnalysis)
        ELSE IF pairs # {}
        THEN EnhancedResult(TRUE, "Enhanced semantic match", SeventeenTwentieths,
                            <<semantic_equivalences[first].truth[1],
                              semantic_equivalences[first].response[1]>>,
                            analyze_semantic_gap(question, truth, response))
        ELSE EnhancedResult(FALSE, basic.reason, basic.confidence, <<>>,
                            analyze_semantic_gap(question, truth, response))

\* the answers the secondary pass is run on: those of the match evaluators and
\* two more
SecondPassResponses ==
    Responses
    \cup { Chars("Sorry, I'm having trouble responding and worried."),
           Chars("There is no specific mention of that overall") }

\* the questions of the evaluation the secondary pass is run on
MatchQuestions == {Chars("What gifts did Chloe promise?"), Chars("Who is nervous?")}

\* analyzer.enhanced_semantic_match(ground_truth, ai_response, question)
EnhancedSemanticMatch(question) ==
    /\ match_question' = question
    /\ enhanced' = enhanced_semantic_match(ground_truth, ai_response, question)
    /\ UNCHANGED <<ground_truth, ai_response, verdicts, exceptMatch>>


(***************************************************************************)
(* The full-context strategy: Architecture1_PureLLM.answer_question        *)
(* (src/architecture_comparison.py) and test_gpt4_question                 *)
(* (src/gpt4_complete_test.py).                                            *)
(*                                                                         *)
(* Only the extent of the transcript text matters here, so the text is     *)
(* modelled by the positions of its characters in the original text: the   *)
(* characters from..to, the empty text having to = from - 1.               *)
(***************************************************************************)
max_chars == 100000

TextOfLength(n) == [from |-> 1, to |-> n]
TextLen(text) == text.to - text.from + 1
NoText == TextOfLength(0)

\* text[-n:], for n > 0
LastChars(text, n) ==
    [from |-> IF TextLen(text) > n THEN text.to - n + 1 ELSE text.from, to |-> text.to]

\* the lengths of the transcript texts of the model
TextLengths == {0, 1, max_chars - 1, max_chars, max_chars + 1, 250000}

\* Python's None as the content of a completion. It is no string: it is
\* encoded as a sequence that no token sequence equals, a token holding no
\* blank.
PyNone == <<"None object">>

\* openai.chat.completions.create: an answer, an answer without content, or
\* an exception
CompletionOutcomes == LlmOutcomes \cup {[ok |-> TRUE, text |-> PyNone]}

PureName == "Pure LLM with Full Context"

\* if len(full_conversation) > max_chars
IsTooLong(text) == TextLen(text) > max_chars

\* the text put into the system prompt
ContextOf(text) == IF IsTooLong(text) THEN LastChars(text, max_chars) ELSE text

\* the dictionary Architecture1_PureLLM.answer_question returns
PureRecord(question, text, llm) ==
    IF llm.ok
    THEN [architecture |-> PureName, question |-> question, answer |-> llm.text,
          truncated |-> IsTooLong(text), context_size |-> TextLen(ContextOf(text)),
          success |-> TRUE]
    ELSE [architecture |-> PureName, question |-> question,
          answer |-> <<"Error:">> \o llm.text,
          truncated |-> FALSE, context_size |-> 0, success |-> FALSE]

NoPureRecord ==
    [architecture |-> "", question |-> <<>>, answer |-> <<>>, truncated |-> FALSE,
     context_size |-> 0, success |-> FALSE]

\* pure.answer_question(question, conversation_data), with what the model call did
PureAnswerQuestion(question, llm) ==
    /\ pure_sent' = ContextOf(full_text)
    /\ pure_record' = PureRecord(question, full_text, llm)
    /\ UNCHANGED <<full_text, gptVars, exceptFull>>

(***************************************************************************)
(* test_gpt4_question(question, conversation, question_num, total)         *)
(***************************************************************************)
Gpt4MaxRetries == 3
RateLimitWait == 30
ErrorWait == 5

\* what one openai.chat.completions.create call of test_gpt4_question does
Gpt4Outcomes ==
    CompletionOutcomes
    \cup { [ok |-> FALSE, text |-> <<"Rate", "limit", "reached">>],
           [ok |-> FALSE, text |-> <<"Error", "code:", "429">>] }

\* "rate limit" in str(e).lower() or "429" in str(e)
IsRateLimitError(text) ==
    Contains(LowerAll(text), <<"rate", "limit">>) \/ Contains(text, <<"429">>)

Gpt4Record(question, answer, truncated, context_size, success, attempts) ==
    [question |-> question, answer |-> answer, truncated |-> truncated,
     context_size |-> context_size, success |-> success, attempts |-> attempts]

NoGpt4Record == Gpt4Record(<<>>, <<>>, FALSE, 0, FALSE, 0)

\* a call of test_gpt4_question starts
TestGpt4Question(question) ==
    /\ gpt_pc \in {"idle", "returned"}
    /\ gpt_pc' = "loop"
    /\ gpt_question' = question
    /\ gpt_conversation' = full_text
    /\ gpt_attempt' = 0
    /\ gpt_sent' = NoText
    /\ gpt_sleeps' = <<>>
    /\ gpt_record' = NoGpt4Record
    /\ UNCHANGED <<full_text, pure_sent, pure_record, exceptFull>>

\* for attempt in range(max_retries)
Gpt4LoopContinues == gpt_attempt < Gpt4MaxRetries

\* one iteration of the loop: the truncation, the model call and its handler
Gpt4Attempt(out) ==
    LET truncated == IsTooLong(gpt_conversation)
        conversation == ContextOf(gpt_conversation)
    IN  /\ gpt_pc = "loop"
        /\ Gpt4LoopContinues
        /\ gpt_conversation' = conversation
        /\ gpt_sent' = conversation
        /\ IF out.ok
           THEN /\ gpt_record' = Gpt4Record(gpt_question, out.text, truncated,
                                            TextLen(conversation), TRUE, gpt_attempt + 1)
                /\ gpt_pc' = "returned"
                /\ UNCHANGED <<gpt_attempt, gpt_sleeps>>
           ELSE IF IsRateLimitError(out.text)
           THEN /\ gpt_sleeps' = Append(gpt_sleeps, RateLimitWait)
                /\ gpt_attempt' = gpt_attempt + 1
                /\ UNCHANGED <<gpt_pc, gpt_record>>
           ELSE IF gpt_attempt < Gpt4MaxRetries - 1
           THEN /\ gpt_sleeps' = Append(gpt_sleeps, ErrorWait)
                /\ gpt_attempt' = gpt_attempt + 1
                /\ UNCHANGED <<gpt_pc, gpt_record>>
           ELSE /\ gpt_record' =
                      Gpt4Record(gpt_question,
                                 <<"Error", "after", ToString(Gpt4MaxRetries), "attempts:">>
                                     \o out.text,
                                 FALSE, 0, FALSE, Gpt4MaxRetries)
                /\ gpt_pc' = "returned"
                /\ UNCHANGED <<gpt_attempt, gpt_sleeps>>
        /\ UNCHANGED <<gpt_question, full_text, pure_sent, pure_record, exceptFull>>

\* the loop ends without a return: the statement after it
Gpt4FallThrough ==
    /\ gpt_pc = "loop"
    /\ ~Gpt4LoopContinues
    /\ gpt_record' = Gpt4Record(gpt_question, <<"Unexpected", "error">>, FALSE, 0, FALSE,
                                Gpt4MaxRetries)
    /\ gpt_pc' = "returned"
    /\ UNCHANGED <<gpt_question, gpt_conversation, gpt_attempt, gpt_sent, gpt_sleeps,
                   full_text, pure_sent, pure_record, exceptFull>>

(***************************************************************************)
(* Architecture3_LLM_KnowledgeGraph.answer_question and                    *)
(* ArchitectureComparison.run_comparison                                   *)
(* (src/architecture_comparison.py).                                       *)
(*                                                                         *)
(* A strategy call is modelled in two steps, as the code has them: what    *)
(* the body of the try statement does (a record, or an exception of some   *)
(* class) and what the except clause makes of an exception.                *)
(***************************************************************************)
KgName == "LLM + Knowledge Graph"

\* what requests.post() of the strategy can do: the replies ask_ai_with_retry
\* sees, and a 200 reply whose aiResponse.content is null
NullContentBody == [shape |-> "object", ai |-> "content_null", content |-> <<>>]
KgReplies ==
    { r \in Replies :
        /\ r.retry_after = "absent"
        /\ r.status \in {0, 200, 503}
        /\ r.body.ai \in {"none", "null"} \/ r.body.content = <<"Jake", "went", "Camping">>
        /\ r.body.shape # "list" }
    \cup {[kind |-> "response", status |-> 200, body |-> NullContentBody,
           retry_after |-> "absent"]}

\* the outcome of a try body: a record returned, or an exception raised
Returns(record) == [exception |-> "none", text |-> <<>>, record |-> record]
Raises(class, text) == [exception |-> class, text |-> text, record |-> NoRecord]

\* except Exception as e
CatchesOnlyRequestException(class) == class = "RequestException"
CatchesException(class) == TRUE

\* the try body of Architecture1_PureLLM.answer_question
PureTry(question, text, llm) ==
    IF llm.ok THEN Returns(PureRecord(question, text, llm))
    ELSE Raises("APIError", llm.text)

\* the try body of Architecture2_LLM_RAG.answer_question
RagTry(question, llm, relevant) ==
    IF llm.ok THEN Returns(RagRecord(question, llm, relevant))
    ELSE Raises("APIError", llm.text)

KgRecord(question, answer, success) ==
    [architecture |-> KgName, question |-> question, answer |-> answer,
     used_knowledge_graph |-> success, success |-> success]

\* the try body of Architecture3_LLM_KnowledgeGraph.answer_question
KgTry(question, reply) ==
    IF reply.kind = "exception"
    THEN Raises("RequestException", <<"Connection", "refused">>)
    ELSE IF reply.status # 200
    THEN Returns(KgRecord(question, <<"API", "Error:", ToString(reply.status)>>, FALSE))
    ELSE IF reply.body.shape = "not_json"
    THEN Raises("JSONDecodeError", <<"Expecting", "value">>)
    ELSE IF reply.body.shape = "list"
    THEN Raises("AttributeError", <<"'list'", "object", "has", "no", "attribute", "'get'">>)
    ELSE IF reply.body.ai = "null"
    THEN Raises("AttributeError",
                <<"'NoneType'", "object", "has", "no", "attribute", "'get'">>)
    ELSE IF reply.body.ai = "missing"
    THEN Returns(KgRecord(question, <<"No", "response">>, TRUE))
    ELSE IF reply.body.ai = "content_null"
    THEN Returns(KgRecord(question, PyNone, TRUE))
    ELSE Returns(KgRecord(question, reply.body.content, TRUE))

\* the record the except clause of each strategy returns
PureErrorRecord(question, text) ==
    PureRecord(question, NoText, [ok |-> FALSE, text |-> text])
RagErrorRecord(question, text) == RagRecord(question, [ok |-> FALSE, text |-> text], <<>>)
KgErrorRecord(question, text) == KgRecord(question, <<"Error:">> \o text, FALSE)

\* answer_question as its caller sees it: the record returned, or the
\* exception that leaves the method
Handled(outcome, errorRecord) ==
    IF outcome.exception = "none" THEN outcome
    ELSE IF CatchesException(outcome.exception) THEN Returns(errorRecord)
    ELSE outcome

\* len(conversation_data.get_full_conversation_text()): the lines
\* "speaker: content" joined by newlines, the tokens of a content by blanks
RECURSIVE JoinedLength(_)
JoinedLength(lengths) ==
    IF lengths = <<>> THEN 0
    ELSE IF Len(lengths) = 1 THEN lengths[1]
    ELSE lengths[1] + 1 + JoinedLength(Tail(lengths))
LineLength(msg) ==
    Len(msg.speaker) + 2 + JoinedLength([i \in 1..Len(msg.content) |-> Len(msg.content[i])])
FullConversationLength(messages) ==
    JoinedLength([i \in 1..Len(messages) |-> LineLength(messages[i])])

\* self.architectures, in list order
Architectures == <<PureName, RagName, KgName>>

\* the question lists handed to run_comparison
QuestionAt(k) ==
    CASE k % 3 = 1 -> <<"Who", "likes", "Hiking">>
      [] k % 3 = 2 -> <<"Camping", "camping", "swimming", "Emma:">>
      [] OTHER -> <<>>
QuestionLists == { [k \in 1..n |-> QuestionAt(k)] : n \in 0..MaxQuestions }

\* the transcripts of the comparisons of the model
ComparedTranscripts == { Transcript(n, 4) : n \in {0, 9} }

\* the call of answer_question by run_comparison: which pair, whether the
\* strategy's external call failed, and whether an exception left the method
Call(i, architecture, failed, outcome) ==
    [question_id |-> i, architecture |-> architecture, failed |-> failed,
     raised |-> outcome.exception # "none"]

\* result['answer'][:100]
IsSubscriptable(answer) == answer # PyNone

\* run_comparison(test_questions) starts
RunComparison ==
    /\ cmp_pc = "ready"
    /\ cmp_pc' = "loop"
    /\ cmp_i' = 0
    /\ cmp_arch' = 1
    /\ all_results' = <<>>
    /\ question_results' = <<>>
    /\ UNCHANGED <<test_questions, comparison_results, calls, cmp_error, exceptCompare>>

\* the body of the inner loop after answer_question: question_id is set, the
\* result is appended to both lists and printed; after the last architecture
\* the entry of the question is appended to self.results
Collect(failed, outcome) ==
    LET result == [question_id |-> cmp_i] @@ outcome.record
        entry == [question |-> test_questions[cmp_i + 1], question_id |-> cmp_i,
                  results |-> Append(question_results, result)]
    IN  /\ calls' = Append(calls, Call(cmp_i, Architectures[cmp_arch], failed, outcome))
        /\ IF outcome.exception # "none"
           THEN /\ cmp_pc' = "raised"
                /\ cmp_error' = outcome.exception
                /\ UNCHANGED <<cmp_i, cmp_arch, question_results, all_results,
                               comparison_results>>
           ELSE /\ all_results' = Append(all_results, result)
                /\ IF ~IsSubscriptable(result.answer)
                   THEN /\ cmp_pc' = "raised"
                        /\ cmp_error' = "TypeError"
                        /\ question_results' = Append(question_results, result)
                        /\ UNCHANGED <<cmp_i, cmp_arch, comparison_results>>
                   ELSE IF cmp_arch < Len(Architectures)
                   THEN /\ cmp_arch' = cmp_arch + 1
                        /\ question_results' = Append(question_results, result)
                        /\ UNCHANGED <<cmp_pc, cmp_error, cmp_i, comparison_results>>
                   ELSE /\ comparison_results' = Append(comparison_results, entry)
                        /\ question_results' = <<>>
                        /\ cmp_i' = cmp_i + 1
                        /\ cmp_arch' = 1
                        /\ UNCHANGED <<cmp_pc, cmp_error>>
        /\ UNCHANGED test_questions

InLoop(arch) ==
    /\ cmp_pc = "loop"
    /\ cmp_i < Len(test_questions)
    /\ Architectures[cmp_arch] = arch

\* the inner loop at Architecture1_PureLLM
ComparePure(llm) ==
    LET question == test_questions[cmp_i + 1]
        text == TextOfLength(FullConversationLength(conversation_data))
        outcome == Handled(PureTry(question, text, llm),
                           PureErrorRecord(question, llm.text))
    IN  /\ InLoop(PureName)
        /\ Collect(~llm.ok, outcome)
        /\ UNCHANGED exceptCompare

\* the inner loop at Architecture2_LLM_RAG
CompareRag(llm) ==
    LET question == test_questions[cmp_i + 1]
        built == NeedsIndex(conversation_chunks)
        chunks == IF built THEN BuildChunks(conversation_data) ELSE conversation_chunks
        relevant == RetrieveFrom(chunks, question, 5)
        outcome == Handled(RagTry(question, llm, relevant),
                           RagErrorRecord(question, llm.text))
    IN  /\ InLoop(RagName)
        /\ conversation_chunks' = chunks
        /\ index_source' = IF built THEN conversation_data ELSE index_source
        /\ rag_last' = LastCall("answer", question, conversation_data, 5, built, relevant,
                                outcome.record)
        /\ Collect(~llm.ok, outcome)
        /\ UNCHANGED <<conversation_data, exceptCompareAndRag>>

\* the inner loop at Architecture3_LLM_KnowledgeGraph
CompareKg(reply) ==
    LET question == test_questions[cmp_i + 1]
        attempted == KgTry(question, reply)
        outcome == Handled(attempted, KgErrorRecord(question, attempted.text))
    IN  /\ InLoop(KgName)
        /\ Collect(reply.kind = "exception" \/ reply.status # 200, outcome)
        /\ UNCHANGED exceptCompare

\* return all_results
ReturnAllResults ==
    /\ cmp_pc = "loop"
    /\ cmp_i = Len(test_questions)
    /\ cmp_pc' = "done"
    /\ UNCHANGED <<test_questions, cmp_i, cmp_arch, question_results, all_results,
                   comparison_results, calls, cmp_error, exceptCompare>>

(***************************************************************************)
(* FastAIEvaluator.evaluate_batch (src/fast_evaluation.py): the worker     *)
(* threads of the executor run ask_ai_agent, the calling thread collects   *)
(* the completed futures.                                                  *)
(***************************************************************************)
\* FastAIEvaluator(max_workers=...)
WorkerCounts == {1, 2, 5}

\* the 'Ground Truth Answer' of question i of the batch
BatchTruth(i) ==
    CASE i % 3 = 1 -> <<"Jake">>
      [] i % 3 = 2 -> <<"Sarah", "loves", "Hiking">>
      [] OTHER -> <<"the">>

\* what requests.post() of ask_ai_agent can do
BatchReplies ==
    { r \in KgReplies : r.status # 200 \/ r.body.ai \in {"object", "content_null"} }

\* the text of a token sequence: its tokens joined by blanks
RECURSIVE JoinChars(_)
JoinChars(tokens) ==
    IF tokens = <<>> THEN <<>>
    ELSE IF Len(tokens) = 1 THEN Chars(tokens[1])
    ELSE Chars(tokens[1]) \o <<" ">> \o JoinChars(Tail(tokens))

\* the ai_response of the triple ask_ai_agent returns for a reply
AskAiAgent(reply) ==
    IF reply.kind = "exception" THEN <<"Error:", "Connection", "refused">>
    ELSE IF reply.status # 200 THEN <<"HTTP", "Error", ToString(reply.status)>>
    ELSE IF reply.body.shape = "not_json" THEN <<"Error:", "Expecting", "value">>
    ELSE IF reply.body.shape = "list"
    THEN <<"Error:", "'list'", "object", "has", "no", "attribute", "'get'">>
    ELSE IF reply.body.ai = "null"
    THEN <<"Error:", "'NoneType'", "object", "has", "no", "attribute", "'get'">>
    ELSE IF reply.body.ai = "missing" THEN <<>>
    ELSE IF reply.body.ai = "content_null" THEN PyNone
    ELSE reply.body.content

\* self.smart_match(ground_truth, ai_response) on the texts of the batch;
\* `not ai_response` holds of None as it does of the empty string
BatchSmartMatch(truth, response) ==
    IF response = PyNone THEN Fixed(FALSE, "No valid response", Zero)
    ELSE smart_match(JoinChars(truth), JoinChars(response))

NoFuture == [state |-> "none", ai_response |-> <<>>]
Pending == [state |-> "pending", ai_response |-> <<>>]

TaskIds == 1..batch_n
InState(s) == { i \in TaskIds : futures[i].state = s }

\* evaluate_batch(questions) starts: every task is submitted to the executor
EvaluateBatch ==
    /\ batch_pc = "ready"
    /\ batch_pc' = "loop"
    /\ futures' = [i \in TaskIds |-> Pending]
    /\ completed_count' = 0
    /\ UNCHANGED <<batch_n, max_workers, current, lock, results, appended, exceptBatch>>

\* a free worker thread takes the oldest task of the executor's queue
WorkerStarts(i) ==
    /\ i \in InState("pending")
    /\ \A j \in InState("pending") : i <= j
    /\ Cardinality(InState("running")) < max_workers
    /\ futures' = [futures EXCEPT ![i].state = "running"]
    /\ UNCHANGED <<batch_n, max_workers, batch_pc, current, lock, completed_count,
                   results, appended, exceptBatch>>

\* ask_ai_agent returns in a worker thread: the future is done
WorkerFinishes(i, reply) ==
    /\ i \in InState("running")
    /\ futures' = [futures EXCEPT ![i] = [state |-> "done", ai_response |-> AskAiAgent(reply)]]
    /\ UNCHANGED <<batch_n, max_workers, batch_pc, current, lock, completed_count,
                   results, appended, exceptBatch>>

\* as_completed yields a future that is done; smart_match scores its answer.
\* An exception of smart_match is printed and the future is skipped.
TakeCompleted(i) ==
    /\ batch_pc = "loop"
    /\ i \in InState("done")
    /\ futures' = [futures EXCEPT ![i].state = "yielded"]
    /\ IF BatchSmartMatch(BatchTruth(i), futures[i].ai_response).raised
       THEN UNCHANGED <<batch_pc, current>>
       ELSE batch_pc' = "acquire" /\ current' = i
    /\ UNCHANGED <<batch_n, max_workers, lock, completed_count, results, appended,
                   exceptBatch>>

\* with self.lock: entered
AcquireLock ==
    /\ batch_pc = "acquire"
    /\ lock = "free"
    /\ lock' = "held"
    /\ batch_pc' = "locked"
    /\ UNCHANGED <<batch_n, max_workers, futures, current, completed_count, results,
                   appended, exceptBatch>>

BatchResult(i, response) ==
    LET verdict == BatchSmartMatch(BatchTruth(i), response)
    IN  [question_id |-> i, ground_truth |-> BatchTruth(i), ai_response |-> response,
         correct |-> verdict.match, match_reason |-> verdict.reason]

\* the body of the with statement
CountAndAppend ==
    /\ batch_pc = "locked"
    /\ completed_count' = completed_count + 1
    /\ results' = Append(results, BatchResult(current, futures[current].ai_response))
    /\ appended' = Append(appended, current)
    /\ batch_pc' = "release"
    /\ UNCHANGED <<batch_n, max_workers, futures, current, lock, exceptBatch>>

\* with self.lock: left
ReleaseLock ==
    /\ batch_pc = "release"
    /\ lock' = "free"
    /\ batch_pc' = "loop"
    /\ UNCHANGED <<batch_n, max_workers, futures, current, completed_count, results,
                   appended, exceptBatch>>

\* list.sort(key=lambda x: x['question_id']): a stable sort
RECURSIVE InsertById(_, _)
InsertById(sorted, r) ==
    IF sorted = <<>> THEN <<r>>
    ELSE IF sorted[Len(sorted)].question_id <= r.question_id THEN Append(sorted, r)
    ELSE Append(InsertById(SubSeq(sorted, 1, Len(sorted) - 1), r), sorted[Len(sorted)])
NotSorted(rs) == rs
RECURSIVE SortByQuestionId(_)
SortByQuestionId(rs) ==
    IF rs = <<>> THEN <<>>
    ELSE InsertById(SortByQuestionId(SubSeq(rs, 1, Len(rs) - 1)), rs[Len(rs)])

\* every future was yielded and the executor has shut down: self.results is
\* sorted and the report is returned
SortAndReturn ==
    /\ batch_pc = "loop"
    /\ \A i \in TaskIds : futures[i].state = "yielded"
    /\ results' = SortByQuestionId(results)
    /\ batch_pc' = "returned"
    /\ UNCHANGED <<batch_n, max_workers, futures, current, lock, completed_count,
                   appended, exceptBatch>>

(***************************************************************************)
(* The resumable question evaluation: src/question_evaluator.py,           *)
(* QuestionEvaluator.evaluate_questions with the intermediate files it     *)
(* writes every fifth question and reads back when the user answers "y".   *)
(* A question file is named by its path; its i-th question is             *)
(* Question(file, i). datetime.now() is the ordinal of the run, and the    *)
(* modification time of a file is its rank among the files written so far. *)
(* A run ends by returning its report or by an exception that nothing in   *)
(* the class catches: KeyboardInterrupt, or the TypeError of               *)
(* len(ai_response) when the newest AI message has a null content.         *)
(***************************************************************************)
\* the cadence of the intermediate saves
SaveEvery == 5

QuestionFiles == {"empty.txt", "example_questions.csv", "example_questions.txt"}

\* len(questions) after load_questions_from_csv / load_questions_from_txt
NumQuestions(file) ==
    CASE file = "empty.txt" -> 0
      [] file = "example_questions.csv" -> 2 * SaveEvery
      [] OTHER -> MaxResumeQuestions

Question(file, i) ==
    [prompt |-> <<"Q", file, i>>,
     ground_truth |-> <<"A", file, i>>,
     memory_type |-> IF file = "example_questions.csv" THEN "Factual Recall"
                     ELSE "Manual Entry"]

\* what ask_ai_question returns: the content of the newest AI message, which
\* the messages endpoint may give as null, or one of its own error strings
AiAnswer == "Jake went camping"
FailedAfter3 == "Error: Failed after 3 attempts"
NullContent == "None"
AiReplies == {AiAnswer, FailedAfter3, NullContent}

\* the replies of a run: every request fails while the server at base_url is
\* down, and none does while it is up
RepliesOf(state) == IF state = "down" THEN {FailedAfter3} ELSE {AiAnswer, NullContent}

\* 'Error:' in ai_response or 'timeout' in ai_response.lower()
ContainsError(reply) ==
    \/ Contains(Chars(reply), Chars("Error:"))
    \/ Contains(LowerStr(Chars(reply)), Chars("timeout"))

EvaluationResult(file, question_number, reply, timestamp) ==
    [question_number |-> question_number,
     prompt |-> Question(file, question_number).prompt,
     memory_type |-> Question(file, question_number).memory_type,
     ground_truth |-> Question(file, question_number).ground_truth,
     ai_response |-> reply,
     timestamp |-> timestamp,
     contains_error |-> ContainsError(reply)]

ErrorCount(rs) == Cardinality({j \in 1..Len(rs) : rs[j].contains_error})

\* save_intermediate_results: the file name carries current_question,
\* questions_count and the time; the text is the intermediate report
IntermediateFile(rs, questions_count, current_question, timestamp, mtime, torn) ==
    [current_question |-> current_question,
     questions_count |-> questions_count,
     timestamp |-> timestamp,
     mtime |-> mtime,
     torn |-> torn,
     text |-> [evaluation_metadata |->
                   [questions_completed |-> current_question,
                    total_questions |-> questions_count,
                    is_intermediate |-> TRUE],
               detailed_results |-> rs]]

\* find_latest_intermediate_file returning None
NoFile == IntermediateFile(<<>>, 0, 0, 0, 0, TRUE)

\* find_latest_intermediate_file: max(intermediate_files, key=os.path.getmtime)
FindLatestIntermediateFile ==
    IF intermediate_files = {} THEN NoFile
    ELSE CHOOSE f \in intermediate_files :
             \A g \in intermediate_files : g.mtime <= f.mtime

\* load_intermediate_results: data.get('detailed_results', []), and [] when
\* json.load raises on a file whose json.dump was cut short
LoadIntermediateResults(f) == IF f.torn THEN <<>> ELSE f.text.detailed_results

\* the mutant of the resumption claim: the loop starts at the last loaded question
StartQuestionAtCount(completed) == completed

\* start_question = completed_count + 1
StartQuestion(completed) == completed + 1

NoReport == [total_questions |-> -1]
EmptyDict == [total_questions |-> 0]

FinalReport(file, rs, resumed) ==
    [source_file |-> file,
     total_questions |-> NumQuestions(file),
     successful_responses |-> Len(rs) - ErrorCount(rs),
     error_responses |-> ErrorCount(rs),
     resumed_from_intermediate |-> resumed,
     detailed_results |-> rs]

NotResumed == <<"not resumed">>

\* evaluate_questions up to the for loop: the resume choice, the questions
\* file, and the two early returns
EvaluateQuestions(file, resume_choice, state) ==
    /\ resume_pc \in {"idle", "returned", "raised"}
    /\ run_no < MaxRuns
    /\ LET latest == FindLatestIntermediateFile
           resumes == latest # NoFile /\ resume_choice \in {"y", "yes"}
           rs == IF resumes THEN LoadIntermediateResults(latest) ELSE <<>>
           start == IF resumes THEN StartQuestion(Len(rs)) ELSE 1
       IN /\ latest = NoFile => resume_choice = "n"
          /\ run_no' = run_no + 1
          /\ questions_file' = file
          /\ server' = state
          /\ start_question' = start
          /\ loaded' = IF resumes THEN rs ELSE NotResumed
          /\ asked' = <<>>
          /\ eval_results' = rs
          /\ question_num' = start - 1
          /\ IF NumQuestions(file) = 0
             THEN resume_pc' = "returned" /\ report' = EmptyDict
             ELSE IF start > NumQuestions(file)
             THEN resume_pc' = "returned" /\ report' = FinalReport(file, rs, TRUE)
             ELSE resume_pc' = "loop" /\ report' = NoReport
    /\ UNCHANGED <<intermediate_files>>
    /\ UNCHANGED exceptResume

\* the mutant of the checkpoint claim: a save every tenth question only
EvalSavesEveryTenth(question_number, n) ==
    question_number % (2 * SaveEvery) = 0 /\ question_number < n

\* if question_num % 5 == 0 and question_num < len(questions)
EvalSaves(question_number, n) == question_number % SaveEvery = 0 /\ question_number < n

\* where a KeyboardInterrupt can end a pass of the loop that has its answer
Interrupts == {"no", "in json.dump", "in time.sleep", "in save_results"}

\* one pass of the for loop, which after the last question runs on into the
\* final report and save_results; interrupted is where a KeyboardInterrupt
\* arrives, if any
AskQuestion(reply, interrupted) ==
    /\ resume_pc = "loop"
    /\ question_num < NumQuestions(questions_file)
    /\ reply \in RepliesOf(server)
    /\ LET n == NumQuestions(questions_file)
           this == question_num + 1
           rs == Append(eval_results,
                        EvaluationResult(questions_file, this, reply, run_no))
           saves == EvalSaves(this, n)
           file == IntermediateFile(rs, n, this, run_no,
                                    Cardinality(intermediate_files) + 1,
                                    interrupted = "in json.dump")
       IN /\ interrupted = "in json.dump" => saves /\ reply # NullContent
          /\ interrupted = "in time.sleep" => this < n /\ reply # NullContent
          /\ interrupted = "in save_results" => this = n /\ reply # NullContent
          /\ asked' = Append(asked, this)
          /\ IF reply = NullContent
             THEN /\ resume_pc' = "raised"
                  /\ UNCHANGED <<eval_results, question_num, intermediate_files, report>>
             ELSE /\ eval_results' = rs
                  /\ question_num' = this
                  /\ intermediate_files' = IF saves THEN intermediate_files \cup {file}
                                           ELSE intermediate_files
                  /\ resume_pc' = IF interrupted # "no" THEN "raised"
                                  ELSE IF this = n THEN "returned" ELSE "loop"
                  /\ report' = IF interrupted = "no" /\ this = n
                               THEN FinalReport(questions_file, rs, FALSE)
                               ELSE report
    /\ UNCHANGED <<questions_file, server, start_question, loaded, run_no>>
    /\ UNCHANGED exceptResume

(***************************************************************************)
(* The GPT-4 complete driver: src/gpt4_complete_test.py, main. It asks     *)
(* every question through test_gpt4_question, which returns a record       *)
(* whatever the API does, writes the results so far after every tenth      *)
(* question and all of them after the last. A KeyboardInterrupt ends it    *)
(* where it arrives.                                                       *)
(***************************************************************************)
\* the cadence of the intermediate saves of main
MainSaveEvery == 10

\* the record test_gpt4_question returns for the i-th question
MainResult(i, api) ==
    [question |-> i,
     success |-> api = "up",
     attempts |-> IF api = "up" THEN 1 ELSE Gpt4MaxRetries]

\* a gpt4_complete_intermediate_<count>_ or gpt4_complete_results_ file; torn
\* when its json.dump was cut short
MainFile(kind, count, rs, torn) ==
    [kind |-> kind, count |-> count, results |-> rs, torn |-> torn]

\* where a KeyboardInterrupt can end a pass of the loop of main
MainInterrupts ==
    {"no", "in test_gpt4_question", "in json.dump", "in time.sleep", "in the final json.dump"}

\* main up to the loop: "Failed to load data" when the conversation or the
\* question list is empty
GptMain(n, conversation_loaded, api) ==
    /\ drv_pc = "idle"
    /\ drv_questions' = n
    /\ drv_api' = api
    /\ drv_pc' = IF conversation_loaded /\ n > 0 THEN "loop" ELSE "returned"
    /\ UNCHANGED <<drv_results, drv_files>>
    /\ UNCHANGED exceptDriver

\* the saves of one pass: (i + 1) % 10 == 0, and the final results after the
\* last question
MainSaves(count) == count % MainSaveEvery = 0

\* one pass of the loop of main, which after the last question runs on into
\* the final save
GptMainQuestion(interrupted) ==
    /\ drv_pc = "loop"
    /\ Len(drv_results) < drv_questions
    /\ LET count == Len(drv_results) + 1
           rs == Append(drv_results, MainResult(count, drv_api))
           last == count = drv_questions
           temp == MainFile("intermediate", count, rs, interrupted = "in json.dump")
           final == MainFile("results", count, rs, interrupted = "in the final json.dump")
           reaches_final == last /\ interrupted \in {"no", "in the final json.dump"}
       IN /\ interrupted = "in json.dump" => MainSaves(count)
          /\ interrupted = "in the final json.dump" => last
          /\ IF interrupted = "in test_gpt4_question"
             THEN UNCHANGED <<drv_results, drv_files>>
             ELSE /\ drv_results' = rs
                  /\ drv_files' = drv_files
                        \cup (IF MainSaves(count) THEN {temp} ELSE {})
                        \cup (IF reaches_final THEN {final} ELSE {})
          /\ drv_pc' = IF interrupted # "no" THEN "raised"
                       ELSE IF last THEN "returned" ELSE "loop"
    /\ UNCHANGED <<drv_questions, drv_api>>
    /\ UNCHANGED exceptDriver

(***************************************************************************)
(* Loading: src/architecture_comparison.py, ConversationData and           *)
(* load_questions_from_file, as main calls them. A file is the sequence of *)
(* its lines, or NoSuchFile; a line is a sequence of characters. The       *)
(* timestamp load_conversation gives each message is left out.             *)
(***************************************************************************)
\* a path without a file: no file holds this line
NoSuchFile == << <<"No such file or directory">> >>

ConversationLines ==
    {Chars("Emma: Hi there"), Chars("# Jake: hidden"), Chars("no colon here"),
     Chars("  Jake : at 5:30 "), <<>>}
ScriptLines ==
    {Chars("Who went camping?"), Chars("Jake went camping."), Chars("# why?"), <<>>}

RECURSIVE FilesOver(_, _)
\* the files of at most n lines drawn from lines
FilesOver(lines, n) ==
    IF n = 0 THEN {<<>>}
    ELSE LET shorter == FilesOver(lines, n - 1)
         IN shorter \cup {Append(f, l) : f \in shorter, l \in lines}

\* ':' in line
HasChar(s, c) == \E i \in 1..Len(s) : s[i] = c
\* line.startswith(lit), line.endswith(lit)
StartsWith(s, lit) == MatchesAt(s, 1, lit)
EndsWith(s, lit) == Len(s) >= Len(lit) /\ MatchesAt(s, Len(s) - Len(lit) + 1, lit)

\* line.split(':', 1) of a line that holds a colon
SplitAtFirst(s, c) ==
    LET at == CHOOSE i \in 1..Len(s) : s[i] = c /\ \A j \in 1..(i - 1) : s[j] # c
    IN <<SubSeq(s, 1, at - 1), SubSeq(s, at + 1, Len(s))>>

RECURSIVE ParseMessages(_)
\* the loop of load_conversation over the lines of the file
ParseMessages(lines) ==
    IF lines = <<>> THEN <<>>
    ELSE LET line == Strip(Head(lines))
             rest == ParseMessages(Tail(lines))
         IN IF HasChar(line, ":") /\ ~StartsWith(line, Chars("#"))
            THEN LET parts == SplitAtFirst(line, ":")
                 IN <<[speaker |-> Strip(parts[1]), content |-> Strip(parts[2])]>> \o rest
            ELSE rest

RECURSIVE ParseQuestions(_)
\* the loop of load_questions_from_file over the lines of the file
ParseQuestions(lines) ==
    IF lines = <<>> THEN <<>>
    ELSE LET line == Strip(Head(lines))
             rest == ParseQuestions(Tail(lines))
         IN IF line # <<>> /\ EndsWith(line, Chars("?")) /\ ~StartsWith(line, Chars("#"))
            THEN <<line>> \o rest
            ELSE rest

\* the fallback of load_questions_from_file
DefaultQuestions ==
    <<Chars("Who said they would pop a red telephone booth in their carry-on?"),
      Chars("Which song did Emma have on repeat?"),
      Chars("Who encountered a bear during a camping trip?")>>

\* what a loader call did: the value it returned, or the exception that left it
LoadReturns(loader, value) == [loader |-> loader, exception |-> "none", value |-> value]
LoadRaises(loader, class) == [loader |-> loader, exception |-> class, value |-> <<>>]

\* the try body of a loader: open() raises on a missing file
LoadTry(loader, file, value) ==
    IF file = NoSuchFile THEN LoadRaises(loader, "FileNotFoundError")
    ELSE LoadReturns(loader, value)

\* except Exception as e: return the fallback
LoadHandled(outcome, fallback) ==
    IF outcome.exception # "none" /\ CatchesException(outcome.exception)
    THEN LoadReturns(outcome.loader, fallback)
    ELSE outcome

load_conversation(file) ==
    LoadHandled(LoadTry("load_conversation", file, ParseMessages(file)), <<>>)

load_questions_from_file(file) ==
    LoadHandled(LoadTry("load_questions_from_file", file, ParseQuestions(file)),
                DefaultQuestions)

\* test_questions and ConversationData.messages before they are assigned
NoQuestionsLoaded == << <<"not loaded">> >>
NoMessagesLoaded == <<[speaker |-> <<"not loaded">>, content |-> <<>>]>>
NoRecent == [limit |-> -1, returned |-> <<>>]

\* main: test_questions = load_questions_from_file("conversation_script.txt")
MainLoadQuestions ==
    /\ load_pc = "start"
    /\ LET outcome == load_questions_from_file(script_source)
       IN /\ load_outcomes' = Append(load_outcomes, outcome)
          /\ IF outcome.exception = "none"
             THEN loaded_questions' = outcome.value /\ load_pc' = "questions"
             ELSE UNCHANGED loaded_questions /\ load_pc' = "raised"
    /\ UNCHANGED <<conversation_source, script_source, loaded_messages, recent>>
    /\ UNCHANGED exceptLoad

\* main: comparison = ArchitectureComparison(conversation_file), whose
\* ConversationData loads the conversation
MainConstruct ==
    /\ load_pc = "questions"
    /\ LET outcome == load_conversation(conversation_source)
       IN /\ load_outcomes' = Append(load_outcomes, outcome)
          /\ IF outcome.exception = "none"
             THEN loaded_messages' = outcome.value /\ load_pc' = "constructed"
             ELSE UNCHANGED loaded_messages /\ load_pc' = "raised"
    /\ UNCHANGED <<conversation_source, script_source, loaded_questions, recent>>
    /\ UNCHANGED exceptLoad

\* main: results = comparison.run_comparison(test_questions)
MainRunComparison ==
    /\ load_pc = "constructed"
    /\ load_pc' = "comparing"
    /\ UNCHANGED <<conversation_source, script_source, loaded_questions, loaded_messages,
                   load_outcomes, recent>>
    /\ UNCHANGED exceptLoad

\* self.messages[-limit:]: the slice starts limit from the end, at the start
\* when limit is at least the length, and -0 is 0
LastMessages(limit) ==
    LET n == Len(loaded_messages)
        from == IF limit = 0 THEN 0 ELSE IF limit >= n THEN 0 ELSE n - limit
    IN SubSeq(loaded_messages, from + 1, n)

GetRecentMessages(limit) ==
    /\ load_pc \in {"constructed", "comparing"}
    /\ recent' = [limit |-> limit, returned |-> LastMessages(limit)]
    /\ UNCHANGED <<conversation_source, script_source, load_pc, loaded_questions,
                   loaded_messages, load_outcomes>>
    /\ UNCHANGED exceptLoad

(***************************************************************************)
(* One pass of the loop of evaluate_questions with the requests of         *)
(* ask_ai_question: src/question_evaluator.py. The question is posted, the *)
(* code sleeps 2 seconds, reads the whole message list and takes the       *)
(* newest AI message, so the newest one is all the model keeps of the      *)
(* list. The server answers a question it has received at a time of its    *)
(* own, before or after the list is read. An AI message carries the number *)
(* of the question it answers, which the code does not see; 0 is a message *)
(* from before the run.                                                    *)
(***************************************************************************)
AskMaxRetries == 3

\* requests.post(): a status, or the exception raised
PostOutcomes == {"200", "201", "500", "Timeout", "ConnectionError"}
\* requests.get() and messages_response.json()
GetOutcomes == {"200", "500", "ConnectionError"}

NoAiResponseFound == "No AI response found"
ErrorRetrieving500 == "Error retrieving messages: 500"

AiMessage(about, content) == [about |-> about, content |-> content]

\* the list holds no AI message: the loop over reversed(messages) ends and
\* "No AI response found" is returned
NoAiMessage == AiMessage(-1, NoAiResponseFound)

\* the newest AI message of the chat before the run
EarlierMessages == {NoAiMessage, AiMessage(0, AiAnswer)}

\* for message in reversed(messages): the first AI message, or none
NewestAiMessage == server_newest_ai

\* the result of the pass, with what its call did: failed tells that the call
\* to the answering service failed, about which question the text answers
AskRecord(text, failed, about) ==
    [question_number |-> ask_question_num,
     ai_response |-> text,
     contains_error |-> ContainsError(text),
     failed |-> failed,
     about |-> about]

\* ask_ai_question returns text and the pass records it; len(ai_response)
\* raises TypeError when the content was null
AskReturns(text, failed, about) ==
    IF text = NullContent
    THEN ask_pc' = "raised" /\ UNCHANGED ask_records
    ELSE ask_pc' = "idle" /\ ask_records' = Append(ask_records, AskRecord(text, failed, about))

\* the attempt failed: the next attempt, or the return after the loop
AskAttemptFailed ==
    IF ask_attempt + 1 < AskMaxRetries
    THEN ask_attempt' = ask_attempt + 1 /\ ask_pc' = "posting" /\ UNCHANGED ask_records
    ELSE UNCHANGED ask_attempt /\ AskReturns(FailedAfter3, TRUE, -1)

\* the loop of evaluate_questions calls ask_ai_question for the next question
AskAiQuestion ==
    /\ ask_pc = "idle"
    /\ ask_question_num < MaxAskQuestions
    /\ ask_question_num' = ask_question_num + 1
    /\ ask_attempt' = 0
    /\ ask_pc' = "posting"
    /\ UNCHANGED <<server_newest_ai, server_pending, ask_records>>
    /\ UNCHANGED exceptAsk

\* requests.post(...) of an attempt
AskPost(outcome) ==
    /\ ask_pc = "posting"
    /\ IF outcome \in {"200", "201"}
       THEN /\ server_pending' = server_pending \cup {ask_question_num}
            /\ ask_pc' = "sleeping"
            /\ UNCHANGED <<ask_attempt, ask_records>>
       ELSE /\ AskAttemptFailed
            /\ UNCHANGED server_pending
    /\ UNCHANGED <<ask_question_num, server_newest_ai>>
    /\ UNCHANGED exceptAsk

\* the server adds its answer to a question it has received
ServerAnswers(q, content) ==
    /\ q \in server_pending
    /\ server_pending' = server_pending \ {q}
    /\ server_newest_ai' = AiMessage(q, content)
    /\ UNCHANGED <<ask_pc, ask_question_num, ask_attempt, ask_records>>
    /\ UNCHANGED exceptAsk

\* after time.sleep(2): requests.get(...) and the search of the list
AskGet(outcome) ==
    /\ ask_pc = "sleeping"
    /\ CASE outcome = "200" ->
              /\ AskReturns(NewestAiMessage.content, FALSE, NewestAiMessage.about)
              /\ UNCHANGED ask_attempt
         [] outcome = "500" ->
              /\ AskReturns(ErrorRetrieving500, TRUE, -1)
              /\ UNCHANGED ask_attempt
         [] OTHER -> AskAttemptFailed
    /\ UNCHANGED <<ask_question_num, server_newest_ai, server_pending>>
    /\ UNCHANGED exceptAsk

(***************************************************************************)
(* Runs on one evaluator object: run_evaluation of ResilientAIEvaluator    *)
(* (src/automated_evaluation.py), evaluate_batch of FastAIEvaluator        *)
(* (src/fast_evaluation.py) and run_comparison of ArchitectureComparison   *)
(* (src/architecture_comparison.py), each call taken as one step. The      *)
(* object lives from its construction on; its attribute results is set to  *)
(* [] by __init__ and by nothing else. What the service answered and how   *)
(* the matcher judged it is an input of the run: one verdict per question. *)
(***************************************************************************)
EvaluatorClasses == {"ResilientAIEvaluator", "FastAIEvaluator", "ArchitectureComparison"}

\* the Memory Type column of the question file, by question number
MemoryTypeOf(i) == IF i % 2 = 1 THEN "Factual Recall" ELSE "Preference"

\* the positions of a result list with a memory type, and its correct ones
OfType(rs, mem_type) == { k \in 1..Len(rs) : rs[k].memory_type = mem_type }
EvaluationCorrectIn(rs) == { k \in 1..Len(rs) : rs[k].evaluation_correct }
CorrectIn(rs) == { k \in 1..Len(rs) : rs[k].correct }

\* memory_stats: per memory type of a list, its total and its correct entries
MemoryStats(rs, correct) ==
    [ mem_type \in { rs[k].memory_type : k \in 1..Len(rs) } |->
        [total |-> Cardinality(OfType(rs, mem_type)),
         correct |-> Cardinality(OfType(rs, mem_type) \cap correct)] ]

\* the result dictionaries one run_evaluation call appends
EvaluationResults(n, verdict) ==
    [ i \in 1..n |-> [question_number |-> i, memory_type |-> MemoryTypeOf(i),
                      evaluation_correct |-> verdict[i]] ]

\* the result dictionaries one evaluate_batch call appends
BatchResults(n, verdict) ==
    [ i \in 1..n |-> [question_id |-> i, memory_type |-> MemoryTypeOf(i),
                      correct |-> verdict[i]] ]

RunReport(has_summary, total_questions, correct_answers, breakdown, detailed_results) ==
    [has_summary |-> has_summary, total_questions |-> total_questions,
     correct_answers |-> correct_answers, memory_type_breakdown |-> breakdown,
     detailed_results |-> detailed_results]

NoRunReport == RunReport(FALSE, 0, 0, <<>>, <<>>)

\* evaluator.run_evaluation(questions_file): total_questions and
\* correct_answers are len(questions) and correct_count of this call, the
\* breakdown and detailed_results are taken from self.results
RunEvaluationCall(n, verdict) ==
    LET self_results == object_results \o EvaluationResults(n, verdict)
        correct_count == Cardinality({ i \in 1..n : verdict[i] })
    IN  /\ evaluator_class = "ResilientAIEvaluator"
        /\ runs_done < MaxRuns
        /\ object_results' = self_results
        /\ run_questions' = n
        /\ run_report' = RunReport(TRUE, n, correct_count,
                                   MemoryStats(self_results,
                                               EvaluationCorrectIn(self_results)),
                                   self_results)
        /\ runs_done' = runs_done + 1
        /\ UNCHANGED <<evaluator_class, exceptRuns>>

\* evaluator.evaluate_batch(questions): every count is taken from self.results
EvaluateBatchCall(n, verdict) ==
    LET self_results == SortByQuestionId(object_results \o BatchResults(n, verdict))
    IN  /\ evaluator_class = "FastAIEvaluator"
        /\ runs_done < MaxRuns
        /\ object_results' = self_results
        /\ run_questions' = n
        /\ run_report' = RunReport(TRUE, Len(self_results),
                                   Cardinality(CorrectIn(self_results)),
                                   MemoryStats(self_results, CorrectIn(self_results)),
                                   self_results)
        /\ runs_done' = runs_done + 1
        /\ UNCHANGED <<evaluator_class, exceptRuns>>

\* the results of one question of run_comparison, one per architecture;
\* question_id is the index i of enumerate(test_questions)
QuestionResults(i) ==
    [ a \in 1..Len(Architectures) |-> [architecture |-> Architectures[a], question_id |-> i] ]

RECURSIVE AllResults(_)
AllResults(n) == IF n = 0 THEN <<>> ELSE AllResults(n - 1) \o QuestionResults(n - 1)

\* comparison.run_comparison(test_questions): returns the local all_results
RunComparisonCall(n) ==
    /\ evaluator_class = "ArchitectureComparison"
    /\ runs_done < MaxRuns
    /\ object_results' =
           object_results \o [ i \in 1..n |-> [question_id |-> i - 1,
                                                results |-> QuestionResults(i - 1)] ]
    /\ run_questions' = n
    /\ run_report' = RunReport(FALSE, 0, 0, <<>>, AllResults(n))
    /\ runs_done' = runs_done + 1
    /\ UNCHANGED <<evaluator_class, exceptRuns>>

(***************************************************************************)
(* The specifications, one per component. The variables of the other       *)
(* components keep their initial values.                                   *)
(***************************************************************************)
RagIdle ==
    /\ conversation_data = <<>>
    /\ conversation_chunks = <<>>
    /\ index_source = <<>>
    /\ rag_last = LastCall("none", <<>>, <<>>, 0, FALSE, <<>>, NoRecord)

RetryIdle ==
    /\ max_retries = 0
    /\ attempt = 0
    /\ retry_pc = "idle"
    /\ attempts_log = <<>>
    /\ retry_result = NoResult

MatchIdle ==
    /\ ground_truth = <<>>
    /\ ai_response = <<>>
    /\ verdicts = [e \in Evaluators |-> NotCalled]
    /\ match_question = <<>>
    /\ enhanced = NotEnhanced

GptIdle ==
    /\ gpt_pc = "idle"
    /\ gpt_question = <<>>
    /\ gpt_conversation = NoText
    /\ gpt_attempt = 0
    /\ gpt_sent = NoText
    /\ gpt_sleeps = <<>>
    /\ gpt_record = NoGpt4Record

FullIdle ==
    /\ full_text = NoText
    /\ pure_sent = NoText
    /\ pure_record = NoPureRecord
    /\ GptIdle

\* a new ArchitectureComparison, before run_comparison
CompareFresh ==
    /\ cmp_pc = "ready"
    /\ cmp_i = 0
    /\ cmp_arch = 1
    /\ question_results = <<>>
    /\ all_results = <<>>
    /\ comparison_results = <<>>
    /\ calls = <<>>
    /\ cmp_error = "none"

CompareIdle == test_questions = <<>> /\ CompareFresh

\* a new FastAIEvaluator, before evaluate_batch
BatchFresh ==
    /\ batch_pc = "ready"
    /\ futures = [i \in TaskIds |-> NoFuture]
    /\ current = 0
    /\ lock = "free"
    /\ completed_count = 0
    /\ results = <<>>
    /\ appended = <<>>

BatchIdle == batch_n = 0 /\ max_workers = 5 /\ BatchFresh

AskFresh ==
    /\ ask_pc = "idle"
    /\ ask_question_num = 0
    /\ ask_attempt = 0
    /\ server_pending = {}
    /\ ask_records = <<>>

AskIdle == server_newest_ai = NoAiMessage /\ AskFresh

RunsIdle ==
    /\ evaluator_class = "ResilientAIEvaluator"
    /\ object_results = <<>>
    /\ run_questions = 0
    /\ run_report = NoRunReport
    /\ runs_done = 0

LoadFresh ==
    /\ load_pc = "start"
    /\ loaded_questions = NoQuestionsLoaded
    /\ loaded_messages = NoMessagesLoaded
    /\ load_outcomes = <<>>
    /\ recent = NoRecent

LoadIdle == conversation_source = NoSuchFile /\ script_source = NoSuchFile /\ LoadFresh

DriverIdle ==
    /\ drv_pc = "idle"
    /\ drv_questions = 0
    /\ drv_api = "up"
    /\ drv_results = <<>>
    /\ drv_files = {}

ResumeIdle ==
    /\ questions_file = "empty.txt"
    /\ server = "up"
    /\ resume_pc = "idle"
    /\ run_no = 0
    /\ start_question = 1
    /\ question_num = 0
    /\ eval_results = <<>>
    /\ report = NoReport
    /\ intermediate_files = {}
    /\ loaded = NotResumed
    /\ asked = <<>>

InitRetry ==
    /\ RetryIdle /\ RagIdle /\ MatchIdle /\ FullIdle /\ CompareIdle /\ BatchIdle
    /\ ResumeIdle
    /\ DriverIdle
    /\ LoadIdle
    /\ AskIdle
    /\ RunsIdle

NextRetry ==
    \/ \E m \in 0..MaxRetriesBound : AskAiWithRetry(m)
    \/ \E reply \in Replies : Attempt(reply)
    \/ ReturnFailure

SpecRetry == InitRetry /\ [][NextRetry]_vars

\* ArchitectureComparison(conversation_file): a transcript is loaded, the RAG
\* object is new
InitRag ==
    /\ RetryIdle
    /\ BatchIdle
    /\ ResumeIdle
    /\ DriverIdle
    /\ LoadIdle
    /\ AskIdle
    /\ RunsIdle
    /\ CompareIdle
    /\ MatchIdle
    /\ FullIdle
    /\ conversation_data \in Transcripts
    /\ conversation_chunks = <<>>
    /\ index_source = <<>>
    /\ rag_last = LastCall("none", <<>>, <<>>, 0, FALSE, <<>>, NoRecord)

NextRag ==
    \/ IndexConversation
    \/ \E q \in Questions, k \in 0..MaxTopK : RetrieveRelevantChunks(q, k)
    \/ \E q \in Questions, t \in {conversation_data} \cup OtherTranscripts,
          llm \in LlmOutcomes : AnswerQuestion(q, t, llm)

SpecRag == InitRag /\ [][NextRag]_vars

\* a (ground truth, answer) pair of the evaluation, no evaluator called yet
InitMatch ==
    /\ RetryIdle
    /\ BatchIdle
    /\ ResumeIdle
    /\ DriverIdle
    /\ LoadIdle
    /\ AskIdle
    /\ RunsIdle
    /\ CompareIdle
    /\ RagIdle
    /\ FullIdle
    /\ ground_truth \in GroundTruths
    /\ ai_response \in Responses
    /\ verdicts = [e \in Evaluators |-> NotCalled]
    /\ match_question = <<>>
    /\ enhanced = NotEnhanced

NextMatch ==
    \/ EvaluateSemanticMatch
    \/ BasicSemanticMatch
    \/ SmartMatch

SpecMatch == InitMatch /\ [][NextMatch]_vars

\* the secondary pass on the answers of an evaluation
InitEnhanced ==
    /\ RetryIdle
    /\ BatchIdle
    /\ ResumeIdle
    /\ DriverIdle
    /\ LoadIdle
    /\ AskIdle
    /\ RunsIdle
    /\ CompareIdle
    /\ RagIdle
    /\ FullIdle
    /\ ground_truth \in GroundTruths
    /\ ai_response \in SecondPassResponses
    /\ verdicts = [e \in Evaluators |-> NotCalled]
    /\ match_question = <<>>
    /\ enhanced = NotEnhanced

NextEnhanced == \E q \in MatchQuestions : EnhancedSemanticMatch(q)

SpecEnhanced == InitEnhanced /\ [][NextEnhanced]_vars

\* a transcript text is loaded; nothing was asked yet
InitFull ==
    /\ RetryIdle
    /\ BatchIdle
    /\ ResumeIdle
    /\ DriverIdle
    /\ LoadIdle
    /\ AskIdle
    /\ RunsIdle
    /\ CompareIdle
    /\ RagIdle
    /\ MatchIdle
    /\ full_text \in {TextOfLength(n) : n \in TextLengths}
    /\ pure_sent = NoText
    /\ pure_record = NoPureRecord
    /\ GptIdle

NextFull ==
    \/ \E q \in Questions, llm \in CompletionOutcomes : PureAnswerQuestion(q, llm)
    \/ \E q \in Questions : TestGpt4Question(q)
    \/ \E out \in Gpt4Outcomes : Gpt4Attempt(out)
    \/ Gpt4FallThrough

SpecFull == InitFull /\ [][NextFull]_vars

\* ArchitectureComparison(conversation_file) and the question list of a run
InitCompare ==
    /\ RetryIdle
    /\ BatchIdle
    /\ ResumeIdle
    /\ DriverIdle
    /\ LoadIdle
    /\ AskIdle
    /\ RunsIdle
    /\ MatchIdle
    /\ FullIdle
    /\ conversation_data \in ComparedTranscripts
    /\ conversation_chunks = <<>>
    /\ index_source = <<>>
    /\ rag_last = LastCall("none", <<>>, <<>>, 0, FALSE, <<>>, NoRecord)
    /\ test_questions \in QuestionLists
    /\ CompareFresh

NextCompare ==
    \/ RunComparison
    \/ \E llm \in CompletionOutcomes : ComparePure(llm)
    \/ \E llm \in CompletionOutcomes : CompareRag(llm)
    \/ \E reply \in KgReplies : CompareKg(reply)
    \/ ReturnAllResults

SpecCompare == InitCompare /\ [][NextCompare]_vars

\* FastAIEvaluator(max_workers=...) and the questions of a batch
InitBatch ==
    /\ RetryIdle
    /\ RagIdle
    /\ MatchIdle
    /\ FullIdle
    /\ CompareIdle
    /\ ResumeIdle
    /\ DriverIdle
    /\ LoadIdle
    /\ AskIdle
    /\ RunsIdle
    /\ batch_n \in 0..MaxBatch
    /\ max_workers \in WorkerCounts
    /\ BatchFresh

NextBatch ==
    \/ EvaluateBatch
    \/ \E i \in TaskIds : WorkerStarts(i)
    \/ \E i \in TaskIds, reply \in BatchReplies : WorkerFinishes(i, reply)
    \/ \E i \in TaskIds : TakeCompleted(i)
    \/ AcquireLock
    \/ CountAndAppend
    \/ ReleaseLock
    \/ SortAndReturn

SpecBatch == InitBatch /\ [][NextBatch]_vars

\* a fresh QuestionEvaluator in a directory without intermediate files
InitResume ==
    /\ RetryIdle
    /\ RagIdle
    /\ MatchIdle
    /\ FullIdle
    /\ CompareIdle
    /\ BatchIdle
    /\ ResumeIdle
    /\ DriverIdle
    /\ LoadIdle
    /\ AskIdle
    /\ RunsIdle

NextResume ==
    \/ \E file \in QuestionFiles, resume_choice \in {"y", "n"}, state \in {"up", "down"} :
           EvaluateQuestions(file, resume_choice, state)
    \/ \E reply \in AiReplies, interrupted \in Interrupts : AskQuestion(reply, interrupted)

SpecResume == InitResume /\ [][NextResume]_vars

\* main of architecture_comparison.py with each conversation file and each
\* question file, present or missing
InitLoad ==
    /\ RetryIdle
    /\ RagIdle
    /\ MatchIdle
    /\ FullIdle
    /\ CompareIdle
    /\ BatchIdle
    /\ ResumeIdle
    /\ DriverIdle
    /\ AskIdle
    /\ RunsIdle
    /\ conversation_source \in FilesOver(ConversationLines, MaxFileLines) \cup {NoSuchFile}
    /\ script_source \in FilesOver(ScriptLines, MaxFileLines) \cup {NoSuchFile}
    /\ LoadFresh

NextLoad ==
    \/ MainLoadQuestions
    \/ MainConstruct
    \/ MainRunComparison
    \/ \E limit \in 0..(MaxFileLines + 1) : GetRecentMessages(limit)

SpecLoad == InitLoad /\ [][NextLoad]_vars

\* evaluate_questions against a server whose chat may hold an earlier AI message
InitAsk ==
    /\ RetryIdle
    /\ RagIdle
    /\ MatchIdle
    /\ FullIdle
    /\ CompareIdle
    /\ BatchIdle
    /\ ResumeIdle
    /\ DriverIdle
    /\ LoadIdle
    /\ RunsIdle
    /\ server_newest_ai \in EarlierMessages
    /\ AskFresh

NextAsk ==
    \/ AskAiQuestion
    \/ \E outcome \in PostOutcomes : AskPost(outcome)
    \/ \E q \in 1..MaxAskQuestions, content \in {AiAnswer, NullContent} : ServerAnswers(q, content)
    \/ \E outcome \in GetOutcomes : AskGet(outcome)

SpecAsk == InitAsk /\ [][NextAsk]_vars

\* the two programs that save their progress as they go, either of them run
\* in a directory without files of an earlier run
InitCheckpoint == InitResume

NextMain ==
    \/ \E n \in 0..MaxMainQuestions, conversation_loaded \in BOOLEAN, api \in {"up", "down"} :
           GptMain(n, conversation_loaded, api)
    \/ \E interrupted \in MainInterrupts : GptMainQuestion(interrupted)

NextCheckpoint ==
    \/ drv_pc = "idle" /\ NextResume
    \/ resume_pc = "idle" /\ NextMain

SpecCheckpoint == InitCheckpoint /\ [][NextCheckpoint]_vars

\* an evaluator object is constructed and runs are made on it
InitRuns ==
    /\ RetryIdle
    /\ BatchIdle
    /\ ResumeIdle
    /\ DriverIdle
    /\ LoadIdle
    /\ AskIdle
    /\ CompareIdle
    /\ RagIdle
    /\ FullIdle
    /\ MatchIdle
    /\ evaluator_class \in EvaluatorClasses
    /\ object_results = <<>>
    /\ run_questions = 0
    /\ run_report = NoRunReport
    /\ runs_done = 0

NextRuns ==
    \/ \E n \in 1..MaxRunQuestions : \E verdict \in [1..n -> BOOLEAN] : RunEvaluationCall(n, verdict)
    \/ \E n \in 1..MaxRunQuestions : \E verdict \in [1..n -> BOOLEAN] : EvaluateBatchCall(n, verdict)
    \/ \E n \in 1..MaxRunQuestions : RunComparisonCall(n)

SpecRuns == InitRuns /\ [][NextRuns]_vars


(***************************************************************************)
(* Properties of ask_ai_with_retry, checked under SpecRetry.               *)
(***************************************************************************)
LogIndices == 1..Len(attempts_log)
TransientOrEmpty(e) == e.class \in {"transient_error", "empty_response"}
AllTransientOrEmpty == \A i \in LogIndices : TransientOrEmpty(attempts_log[i])
AllRateLimited == \A i \in LogIndices : attempts_log[i].class = "rate_limited"
\* the wait a 429 reply advises: the retry-after header, 2 when it is absent
Advised(header) == IF header = "absent" THEN 2 ELSE IntOf(header)
\* the log is k rate-limited replies followed by one valid answer
RateLimitedThenOk ==
    /\ Len(attempts_log) >= 1
    /\ attempts_log[Len(attempts_log)].class = "ok"
    /\ \A i \in 1..(Len(attempts_log) - 1) : attempts_log[i].class = "rate_limited"

\* C1: ask_ai_with_retry returns a (text, success) pair and never propagates
\* an exception, whatever the answering service replies.
C1_NeverRaises == retry_pc # "raised" /\ retry_result.raised = "none"

\* C2: at most max_retries requests are ever issued; when every attempt ends in
\* a transient error or an empty/sentinel reply, the call does not end before
\* max_retries requests were issued and then returns
\* ("Failed after <max_retries> attempts", False).
C2_FailureAfterExactlyMaxRetries ==
    /\ Len(attempts_log) <= max_retries
    /\ AllTransientOrEmpty =>
         /\ retry_pc # "raised"
         /\ retry_pc = "loop" => attempt = Len(attempts_log)
         /\ retry_pc = "returned" =>
              /\ Len(attempts_log) = max_retries
              /\ retry_result.text =
                    <<"Failed", "after", ToString(max_retries), "attempts">>
              /\ retry_result.success = FALSE

C2_Witness ==
    /\ retry_pc = "returned"
    /\ max_retries >= 3
    /\ Len(attempts_log) = max_retries
    /\ AllTransientOrEmpty
    /\ \E i \in LogIndices : attempts_log[i].class = "empty_response"
    /\ \E i \in LogIndices : attempts_log[i].status = 503
    /\ \E i \in LogIndices : attempts_log[i].status = 0

\* C3: k rate-limited replies (k < max_retries) followed by a valid answer end
\* in success after k+1 requests and exactly k waits, each of the advised
\* retry-after (2 when absent) plus 1 second, none of them a backoff wait; and
\* while fewer than max_retries replies, all rate-limited, have arrived, the
\* client goes on to the next request.
C3_RateLimitedThenSuccess ==
    /\ (retry_pc # "idle" /\ AllRateLimited /\ Len(attempts_log) < max_retries) =>
          /\ retry_pc = "loop"
          /\ attempt = Len(attempts_log)
    /\ RateLimitedThenOk =>
          /\ retry_pc = "returned"
          /\ retry_result.success = TRUE
          /\ retry_result.text # <<>>
          /\ attempts_log[Len(attempts_log)].sleeps = <<>>
          /\ \A i \in 1..(Len(attempts_log) - 1) :
                attempts_log[i].sleeps =
                    <<[kind |-> "rate_limit",
                       secs |-> Advised(attempts_log[i].header) + 1]>>

C3_Witness ==
    /\ RateLimitedThenOk
    /\ Len(attempts_log) = 3
    /\ attempts_log[1].header = "absent"
    /\ attempts_log[1].sleeps = <<[kind |-> "rate_limit", secs |-> 3]>>
    /\ attempts_log[2].header = "4"
    /\ attempts_log[2].sleeps = <<[kind |-> "rate_limit", secs |-> 5]>>
    /\ retry_result.success

\* C4: a rate-limited reply does not consume the max_retries budget: a call
\* that has only seen rate-limited replies has not ended in failure.
C4_RateLimitKeepsBudget ==
    ~ ( /\ retry_pc = "returned"
        /\ retry_result.success = FALSE
        /\ max_retries >= 1
        /\ AllRateLimited )

\* C5: the attempt with zero-based index a that ends in a transient error or
\* an empty/sentinel reply is followed by one wait of 2^a + 1 seconds (2, 3, 5,
\* 9, 17 for a = 0..4), backoff waits are strictly increasing, and a
\* rate-limited attempt is followed by no backoff wait.
C5_BackoffSchedule ==
    /\ \A i \in LogIndices :
          /\ TransientOrEmpty(attempts_log[i]) =>
                /\ attempts_log[i].sleeps = <<[kind |-> "backoff", secs |-> (2 ^ (i - 1)) + 1]>>
                /\ i <= 5 => attempts_log[i].sleeps[1].secs = <<2, 3, 5, 9, 17>>[i]
          /\ attempts_log[i].class = "rate_limited" =>
                \A k \in 1..Len(attempts_log[i].sleeps) :
                    attempts_log[i].sleeps[k].kind # "backoff"
    /\ \A i, j \in LogIndices :
          (i < j /\ TransientOrEmpty(attempts_log[i]) /\ TransientOrEmpty(attempts_log[j]))
             => attempts_log[i].sleeps[1].secs < attempts_log[j].sleeps[1].secs

C5_Witness ==
    /\ Len(attempts_log) = 5
    /\ attempts_log[1].class = "empty_response"
    /\ attempts_log[2].class = "rate_limited"
    /\ attempts_log[3].class = "transient_error"
    /\ attempts_log[3].sleeps[1].secs = 5
    /\ attempts_log[5].class = "transient_error"
    /\ attempts_log[5].sleeps[1].secs = 17

(***************************************************************************)
(* Properties of the chunk index, checked under SpecRag.                   *)
(***************************************************************************)
ChunkIndices == 1..Len(conversation_chunks)
\* the index range [start_index, end_index) of a chunk
IndexRange(c) == c.start_index..(c.end_index - 1)

\* C6: the index ranges of the chunks built from a transcript of N messages
\* cover exactly [0, N), each lies inside [0, N), each chunk holds the messages
\* of its range in order, and no chunk is built for N = 0.
C6_ChunksCoverTranscript ==
    LET n == Len(index_source)
    IN  /\ UNION {IndexRange(conversation_chunks[j]) : j \in ChunkIndices} = 0..(n - 1)
        /\ \A j \in ChunkIndices :
              LET c == conversation_chunks[j]
              IN  /\ 0 <= c.start_index
                  /\ c.start_index < c.end_index
                  /\ c.end_index <= n
                  /\ c.messages = SubSeq(index_source, c.start_index + 1, c.end_index)
        /\ n = 0 => conversation_chunks = <<>>

C6_Witness ==
    /\ rag_last.op = "index"
    /\ Len(index_source) = 15
    /\ Len(conversation_chunks) = 3
    /\ conversation_chunks[3].start_index = 14
    /\ conversation_chunks[3].end_index = 15

\* C7: chunk starts advance by exactly 7, and two consecutive chunks share
\* exactly 3 messages unless the second of them is the final chunk.
C7_ConsecutiveOverlap ==
    /\ conversation_chunks # <<>> => conversation_chunks[1].start_index = 0
    /\ \A j \in ChunkIndices :
          j < Len(conversation_chunks) =>
             LET c == conversation_chunks[j]
                 d == conversation_chunks[j + 1]
             IN  /\ d.start_index = c.start_index + 7
                 /\ j + 1 < Len(conversation_chunks) =>
                       Cardinality(Range(c.messages) \cap Range(d.messages)) = 3

C7_Witness ==
    /\ rag_last.op = "index"
    /\ Len(conversation_chunks) = 4
    /\ Cardinality(Range(conversation_chunks[1].messages)
                   \cap Range(conversation_chunks[2].messages)) = 3
    /\ Cardinality(Range(conversation_chunks[3].messages)
                   \cap Range(conversation_chunks[4].messages)) = 1

\* C8: only the final chunk may hold fewer than 10 messages.
C8_OnlyFinalChunkShort ==
    \A j \in ChunkIndices :
        j < Len(conversation_chunks) => Len(conversation_chunks[j].messages) = 10

\* the number of distinct lower-cased tokens a question and a chunk share
SharedTokens(question, c) ==
    Cardinality({Lower(question[i]) : i \in 1..Len(question)}
                \cap UNION {{Lower(c.text[l][i]) : i \in 1..Len(c.text[l])} :
                            l \in 1..Len(c.text)})

\* C9: retrieve_relevant_chunks(question, top_k) returns min(top_k, number of
\* chunks) stored chunks, in descending order of score and, for equal scores,
\* ascending chunk id; no chunk left out scores higher than a returned one.
C9_RetrieveTopK ==
    rag_last.op = "retrieve" =>
        LET res == rag_last.retrieved
            q == rag_last.question
        IN  /\ Len(res) = Min(rag_last.top_k, Len(conversation_chunks))
            /\ \A i \in 1..Len(res) : res[i] \in Range(conversation_chunks)
            /\ \A i, j \in 1..Len(res) :
                  i < j =>
                     \/ SharedTokens(q, res[i]) > SharedTokens(q, res[j])
                     \/ /\ SharedTokens(q, res[i]) = SharedTokens(q, res[j])
                        /\ res[i].id < res[j].id
            /\ \A c \in Range(conversation_chunks) \ Range(res) :
                  \A i \in 1..Len(res) : SharedTokens(q, c) <= SharedTokens(q, res[i])

C9_Witness ==
    /\ rag_last.op = "retrieve"
    /\ Len(conversation_chunks) = 4
    /\ rag_last.top_k = 3
    /\ ChunkIds(rag_last.retrieved) = <<14, 0, 7>>
    /\ SharedTokens(rag_last.question, rag_last.retrieved[1]) = 3
    /\ SharedTokens(rag_last.question, rag_last.retrieved[2]) = 2
    /\ SharedTokens(rag_last.question, rag_last.retrieved[3]) = 2

\* C10: answer_question retrieves chunks of the transcript passed to it: after
\* a call the index is the one of that transcript, and every chunk retrieved
\* holds messages of that transcript.
C10_ChunksOfCallTranscript ==
    rag_last.op = "answer" =>
        /\ index_source = rag_last.transcript
        /\ \A i \in 1..Len(rag_last.retrieved) :
              LET c == rag_last.retrieved[i]
              IN  /\ c.end_index <= Len(rag_last.transcript)
                  /\ c.messages = SubSeq(rag_last.transcript, c.start_index + 1, c.end_index)

(***************************************************************************)
(* Properties of the match evaluators, checked under SpecMatch.            *)
(***************************************************************************)
Called(e) == verdicts[e].reason # "not called"

ResilientVerdict == verdicts["evaluate_semantic_match"]

\* the failure sentinel of each variant
SentinelOf(e) == IF e = "evaluate_semantic_match" THEN FailedAfter ELSE HavingTroubleResponding

CarriesSentinel(e) == Contains(LowerStr(ai_response), SentinelOf(e))

\* the normalized answer of each variant
NormalizedAnswer(e) ==
    CASE e = "evaluate_semantic_match" -> ResilientResponseClean(ai_response)
      [] e = "basic_semantic_match" -> BasicResponseClean(ai_response)
      [] e = "smart_match" -> SmartResponseClean(ai_response)

TruthInAnswer(e) == Contains(NormalizedAnswer(e), Clean(ground_truth))

IsExactVerdict(v) == ~v.raised /\ v.match /\ v.confidence = One

\* C13 as stated: for every ground truth and every non-empty answer, if the
\* normalized ground truth is a substring of the normalized answer,
\* evaluate_semantic_match returns match = True with confidence 1.0.
C13_SubstringAlwaysMatches ==
    (/\ Called("evaluate_semantic_match")
     /\ ai_response # <<>>
     /\ TruthInAnswer("evaluate_semantic_match"))
    => IsExactVerdict(ResilientVerdict)

\* C13, amended: for every ground truth and every non-empty answer that does
\* not carry the failure sentinel of the variant ("failed after" for
\* evaluate_semantic_match, "having trouble responding" for smart_match), if
\* the normalized ground truth is a substring of the normalized answer, the
\* evaluator returns match = True with confidence 1.0.
C13_SubstringMatchesUnlessSentinel ==
    \A e \in {"evaluate_semantic_match", "smart_match"} :
        (/\ Called(e)
         /\ ai_response # <<>>
         /\ ~CarriesSentinel(e)
         /\ TruthInAnswer(e))
        => IsExactVerdict(verdicts[e])

\* a ground truth found inside a longer answer that has no sentinel
C13_Witness ==
    /\ Called("evaluate_semantic_match")
    /\ Called("smart_match")
    /\ ground_truth # <<>>
    /\ ~CarriesSentinel("evaluate_semantic_match")
    /\ ~CarriesSentinel("smart_match")
    /\ TruthInAnswer("evaluate_semantic_match")
    /\ TruthInAnswer("smart_match")
    /\ Len(NormalizedAnswer("evaluate_semantic_match")) > Len(Clean(ground_truth))
    /\ IsExactVerdict(ResilientVerdict)

\* a term of the set is one of the words of the text
HoldsTerm(text, terms) == SplitWords(text) \cap terms # {}

\* C14: the semantic bonus of evaluate_semantic_match is 0.3 when the ground
\* truth holds a term of a left synonym set and the answer a term of the
\* matching right set, and 0 otherwise: it never exceeds 0.3 however many
\* groups apply, it applies only when such terms are present as terms of the
\* texts, and the resulting score is capped at 1.0.
C14_SingleBonusForTerms ==
    Called("evaluate_semantic_match") =>
        /\ ResilientVerdict.bonus <= 1
        /\ ResilientVerdict.bonus >= 1 =>
              \E p \in 1..Len(semantic_pairs) :
                  /\ HoldsTerm(Clean(ground_truth), semantic_pairs[p].truth)
                  /\ HoldsTerm(NormalizedAnswer("evaluate_semantic_match"),
                               semantic_pairs[p].response)
        /\ ResilientVerdict.confidence.num <= ResilientVerdict.confidence.den

\* the input reaches the threshold step of evaluate_semantic_match
ReachesThresholds ==
    /\ ai_response # <<>>
    /\ ~CarriesSentinel("evaluate_semantic_match")
    /\ ~TruthInAnswer("evaluate_semantic_match")
    /\ LongWords(Clean(ground_truth)) \ ResilientStopWords # {}

InUnitInterval(score) == score.den > 0 /\ 0 <= score.num /\ score.num <= score.den

\* C15: for every input that reaches the threshold step of
\* evaluate_semantic_match, match = True iff the total score is >= 0.5, the
\* reason class is excellent / good / acceptable / weak / no match for scores
\* >= 0.9 / >= 0.7 / >= 0.5 / >= 0.3 / below 0.3, and the confidence returned
\* by any path of any evaluator lies in [0, 1].
C15_ThresholdsAndRange ==
    /\ (Called("evaluate_semantic_match") /\ ReachesThresholds) =>
          LET v == ResilientVerdict
              total == v.confidence
          IN  /\ ~v.raised
              /\ total.num * 10 * v.outOf
                   = Min(10 * v.outOf, 10 * v.matched + 3 * v.bonus * v.outOf) * total.den
              /\ v.match <=> AtLeast(total, 5)
              /\ AtLeast(total, 9) <=> v.reason = "Excellent match"
              /\ (AtLeast(total, 7) /\ ~AtLeast(total, 9)) <=> v.reason = "Good match"
              /\ (AtLeast(total, 5) /\ ~AtLeast(total, 7))
                    <=> v.reason = "Acceptable match"
              /\ (AtLeast(total, 3) /\ ~AtLeast(total, 5)) <=> v.reason = "Weak match"
              /\ ~AtLeast(total, 3) <=> v.reason = "No meaningful match"
    /\ \A e \in Evaluators : Called(e) => InUnitInterval(verdicts[e].confidence)

\* overlap ratio plus bonus exceeds 1 and the score returned is the cap
C15_Witness ==
    /\ Called("evaluate_semantic_match")
    /\ ReachesThresholds
    /\ 10 * ResilientVerdict.matched + 3 * ResilientVerdict.bonus * ResilientVerdict.outOf
         > 10 * ResilientVerdict.outOf
    /\ ResilientVerdict.reason = "Excellent match"
    /\ ResilientVerdict.confidence.num = ResilientVerdict.confidence.den

\* C16: when the ground truth has no term left after dropping tokens of
\* length <= 2 and stop words, and the answer is non-empty and valid and does
\* not contain the normalized ground truth, each evaluator returns
\* match = True with confidence exactly 0.8.
StopWordsOf(e) ==
    CASE e = "evaluate_semantic_match" -> ResilientStopWords
      [] e = "basic_semantic_match" -> BasicStopWords
      [] e = "smart_match" -> SmartStopWords

C16_TrivialGroundTruth ==
    \A e \in Evaluators :
        (/\ Called(e)
         /\ LongWords(Clean(ground_truth)) \ StopWordsOf(e) = {}
         /\ ai_response # <<>>
         /\ ~CarriesSentinel(e)
         /\ ~TruthInAnswer(e))
        => /\ ~verdicts[e].raised
           /\ verdicts[e].match
           /\ verdicts[e].confidence = FourFifths

\* C17: for every ground truth, an empty answer and an answer carrying the
\* failure sentinel of the variant are scored match = False, confidence 0.0,
\* reason "No valid response" by each of the three evaluators, and none of
\* them raises for any pair of strings.
C17_NoValidResponse ==
    \A e \in Evaluators :
        /\ ~verdicts[e].raised
        /\ (Called(e) /\ (ai_response = <<>> \/ CarriesSentinel(e))) =>
              /\ ~verdicts[e].match
              /\ verdicts[e].confidence = Zero
              /\ verdicts[e].reason = "No valid response"

\* an answer that carries a sentinel in mixed case and also holds the ground
\* truth, scored by all three evaluators
C17_Witness ==
    /\ \A e \in Evaluators : Called(e)
    /\ ai_response # <<>>
    /\ ai_response # LowerStr(ai_response)
    /\ CarriesSentinel("evaluate_semantic_match")
    /\ TruthInAnswer("evaluate_semantic_match")
    /\ ResilientVerdict.reason = "No valid response"

(***************************************************************************)
(* Properties of the full-context strategy, checked under SpecFull.        *)
(***************************************************************************)
\* the trailing min(L, max_chars) characters of a text of length L
TrailingContext(text) ==
    [from |-> text.to - Min(TextLen(text), max_chars) + 1, to |-> text.to]

FullContextRecordOk(record, sent) ==
    record.success =>
        /\ sent = TrailingContext(full_text)
        /\ record.context_size = TextLen(sent)
        /\ record.context_size <= max_chars
        /\ record.truncated <=> TextLen(full_text) > max_chars

\* C12: in every successful full-context answer record, the context sent is
\* the trailing min(L, max_chars) characters of the transcript text of
\* original length L, context_size <= max_chars, and truncated is true iff
\* L > max_chars; also for a record produced after retries of the question.
C12_TailTruncation ==
    /\ FullContextRecordOk(pure_record, pure_sent)
    /\ gpt_pc = "returned" => FullContextRecordOk(gpt_record, gpt_sent)

(***************************************************************************)
(* Properties of the strategies and of run_comparison, checked under       *)
(* SpecCompare.                                                            *)
(***************************************************************************)
\* "Error: ..." or "API Error: ..."
IsDiagnostic(answer) ==
    /\ answer # <<>>
    /\ answer[1] = "Error:" \/ (Len(answer) >= 2 /\ SubSeq(answer, 1, 2) = <<"API", "Error:">>)

FailedCallsOf(architecture) ==
    { k \in 1..Len(calls) : calls[k].architecture = architecture /\ calls[k].failed }

\* C11: each of the three strategies' answer_question returns a record for
\* every outcome of its external call; when the call raises or (for the
\* delegated strategy) returns a non-200 status, the record has
\* success = False and a diagnostic answer text, and no exception reaches
\* run_comparison.
C11_StrategiesAlwaysReturn ==
    /\ Len(all_results) = Len(calls)
    /\ \A k \in 1..Len(calls) :
          /\ ~calls[k].raised
          /\ all_results[k].architecture = calls[k].architecture
          /\ all_results[k].question_id = calls[k].question_id
          /\ calls[k].failed =>
                /\ ~all_results[k].success
                /\ IsDiagnostic(all_results[k].answer)

\* a run in which the external call of each strategy failed once, that of the
\* delegated strategy with a non-200 status
C11_Witness ==
    /\ cmp_pc = "done"
    /\ \A a \in 1..Len(Architectures) : FailedCallsOf(Architectures[a]) # {}
    /\ \E k \in FailedCallsOf(KgName) : all_results[k].answer[1] = "API"

\* the pairs run_comparison must evaluate, in order: pair k is question
\* (k - 1) \div 3 with strategy ((k - 1) % 3) + 1
PairsInOrder ==
    \A k \in 1..Len(calls) :
        /\ calls[k].question_id = (k - 1) \div Len(Architectures)
        /\ calls[k].architecture = Architectures[((k - 1) % Len(Architectures)) + 1]

EntryInOrder(j) ==
    LET entry == comparison_results[j]
    IN  /\ entry.question = test_questions[j]
        /\ entry.question_id = j - 1
        /\ Len(entry.results) = Len(Architectures)
        /\ \A a \in 1..Len(Architectures) :
              /\ entry.results[a].architecture = Architectures[a]
              /\ entry.results[a].question_id = j - 1
              /\ entry.results[a].question = test_questions[j]

ResultsInOrder ==
    cmp_pc = "done" =>
        /\ Len(calls) = Len(Architectures) * Len(test_questions)
        /\ Len(comparison_results) = Len(test_questions)
        /\ \A j \in 1..Len(test_questions) : EntryInOrder(j)

\* C18: run_comparison on a fresh ArchitectureComparison evaluates every
\* (question, strategy) pair exactly once, questions in input order and
\* strategies in the order PureLLM, RAG, KnowledgeGraph, whichever strategy
\* calls fail; afterwards results has one entry per question in input order
\* with question_id equal to its index and one result per strategy in order.
C18_EveryPairOnce ==
    /\ cmp_pc # "raised"
    /\ PairsInOrder
    /\ ResultsInOrder

(***************************************************************************)
(* Properties of evaluate_batch, checked under SpecBatch.                  *)
(***************************************************************************)
\* detailed_results has exactly one entry per input question, by ascending
\* question_id, which is the input order
ReportInInputOrder ==
    /\ Len(results) = batch_n
    /\ \A i \in 1..batch_n : results[i].question_id = i

AllYielded == \A i \in TaskIds : futures[i].state = "yielded"

IsPermutationOf(rs, qs) ==
    /\ Len(rs) = Len(qs)
    /\ \A r \in Range(rs) :
          Cardinality({k \in 1..Len(rs) : rs[k] = r}) = Cardinality({k \in 1..Len(qs) : qs[k] = r})

\* C19 as stated: for every interleaving of worker completions the returned
\* detailed_results is ordered by ascending question_id, the input order, with
\* exactly one entry per input question; completed_count and results are
\* only modified while the lock is held.
C19_OrderedAndOnlyUnderLock ==
    [][/\ batch_pc' = "returned" => ReportInInputOrder'
       /\ (results' # results \/ completed_count' # completed_count) => lock = "held"]_vars

\* C19, amended: the report is ordered and complete as stated;
\* completed_count is only modified, and results only appended to, while the
\* lock is held; the one other modification of results is the final sort,
\* which runs without the lock after every future was collected.
C19_OrderedAndLockedWhileCollecting ==
    [][/\ batch_pc' = "returned" => ReportInInputOrder'
       /\ completed_count' # completed_count => lock = "held"
       /\ results' # results =>
             \/ lock = "held" /\ Len(results') = Len(results) + 1
             \/ /\ lock = "free"
                /\ AllYielded
                /\ batch_pc' = "returned"
                /\ IsPermutationOf(results', results)]_vars

\* a batch whose results were appended out of input order and are returned
\* in input order
C19_Witness ==
    /\ batch_pc = "returned"
    /\ batch_n >= 3
    /\ \E a, b \in 1..Len(appended) : a < b /\ appended[a] > appended[b]
    /\ completed_count = batch_n
    /\ ReportInInputOrder

(***************************************************************************)
(* Properties of evaluate_questions, checked under SpecResume.             *)
(***************************************************************************)
\* the run goes on from an intermediate file that holds the results of the
\* first k questions of its questions file, k below the number of questions
ResumedFromFirst(k) ==
    /\ resume_pc # "idle"
    /\ loaded # NotResumed
    /\ k = Len(loaded)
    /\ k < NumQuestions(questions_file)
    /\ \A j \in 1..k :
          /\ loaded[j].question_number = j
          /\ loaded[j].prompt = Question(questions_file, j).prompt
          /\ loaded[j].ground_truth = Question(questions_file, j).ground_truth

\* the entry an uninterrupted run records for question j, whatever the reply
OfQuestion(entry, j) ==
    /\ entry.question_number = j
    /\ entry.prompt = Question(questions_file, j).prompt
    /\ entry.ground_truth = Question(questions_file, j).ground_truth
    /\ entry.memory_type = Question(questions_file, j).memory_type

\* C20: a run resumed from the results of the first k of N questions, k < N,
\* asks k+1, k+2, ... in order, once each, and none of 1..k; its results
\* start with the k loaded entries unchanged; and the report it returns has
\* asked k+1..N and holds question_number 1..N, entry j being the entry of
\* question j.
C20_ResumeContinuesAfterLoaded ==
    \A k \in 0..MaxResumeQuestions :
        ResumedFromFirst(k) =>
            /\ \A a \in 1..Len(asked) : asked[a] = k + a
            /\ Len(eval_results) >= k
            /\ SubSeq(eval_results, 1, k) = loaded
            /\ resume_pc = "returned" =>
                  /\ Len(asked) = NumQuestions(questions_file) - k
                  /\ Len(report.detailed_results) = NumQuestions(questions_file)
                  /\ SubSeq(report.detailed_results, 1, k) = loaded
                  /\ \A j \in 1..NumQuestions(questions_file) :
                        OfQuestion(report.detailed_results[j], j)

\* a resumed run has returned: it loaded at least one save, asked the rest,
\* and its report holds entries of an earlier run and of this one
C20_Witness ==
    /\ resume_pc = "returned"
    /\ ResumedFromFirst(Len(loaded))
    /\ Len(loaded) >= SaveEvery
    /\ asked # <<>>
    /\ report.detailed_results[1].timestamp < run_no
    /\ report.detailed_results[Len(report.detailed_results)].timestamp = run_no

\* the step is a call of evaluate_questions on the questions file of the run
\* that has just returned its report of all N results, and it resumes
RerunsCompletedRun ==
    /\ resume_pc = "returned"
    /\ NumQuestions(questions_file) > 0
    /\ Len(report.detailed_results) = NumQuestions(questions_file)
    /\ run_no' = run_no + 1
    /\ questions_file' = questions_file
    /\ loaded' # NotResumed

\* C21: evaluate_questions called again, with resumption accepted, after a run
\* over the same N questions has completed asks nothing and returns the N
\* existing results unchanged.
C21_RerunIsNoOp ==
    [][RerunsCompletedRun =>
          /\ resume_pc' = "returned"
          /\ report'.detailed_results = report.detailed_results]_vars

(***************************************************************************)
(* Properties of the saved progress of evaluate_questions and of main of   *)
(* gpt4_complete_test.py, checked under SpecCheckpoint.                    *)
(***************************************************************************)
\* entry j of the results is in a file whose json.dump ran to its end
EvalPersisted(j) ==
    \E f \in intermediate_files :
        /\ ~f.torn
        /\ Len(f.text.detailed_results) >= j
        /\ f.text.detailed_results[j] = eval_results[j]

MainPersisted(j) ==
    \E f \in drv_files :
        ~f.torn /\ Len(f.results) >= j /\ f.results[j] = drv_results[j]

\* the answers a crash at this point loses
EvalUnpersisted == Cardinality({j \in 1..Len(eval_results) : ~EvalPersisted(j)})
MainUnpersisted == Cardinality({j \in 1..Len(drv_results) : ~MainPersisted(j)})

\* C22: at every point of a run, also the point where it is interrupted, the
\* answers that are in no saved file are at most the cadence of the program:
\* 5 for evaluate_questions (until save_results has written its report) and
\* 10 for main of gpt4_complete_test.py.
C22_AtMostOneWindowUnsaved ==
    /\ resume_pc \in {"loop", "raised"} => EvalUnpersisted <= SaveEvery
    /\ MainUnpersisted <= MainSaveEvery

\* evaluate_questions is interrupted with a whole window unsaved, after an
\* earlier window was saved
C22_Witness ==
    /\ resume_pc = "raised"
    /\ EvalUnpersisted = SaveEvery
    /\ Len(eval_results) = 2 * SaveEvery
    /\ \E j \in 1..Len(eval_results) : EvalPersisted(j)

(***************************************************************************)
(* Properties of an interrupted evaluate_questions, checked under          *)
(* SpecResume.                                                             *)
(***************************************************************************)
\* the step ends the run by a KeyboardInterrupt that arrives after the answer
\* of the pass was added to the results
InterruptedAfterAnswer ==
    /\ resume_pc = "loop"
    /\ resume_pc' = "raised"
    /\ eval_results' # eval_results

\* C23: when a user interrupt cancels the run after q questions were
\* answered, no further request is made and a report holding all q results
\* is saved before the run ends.
C23_InterruptFlushesResults ==
    [][InterruptedAfterAnswer =>
          /\ asked' = asked \/ asked' = Append(asked, question_num')
          /\ \A j \in 1..Len(eval_results') : EvalPersisted(j)']_vars

(***************************************************************************)
(* Properties of loading, checked under SpecLoad.                          *)
(***************************************************************************)
\* the file exists and holds a line that is not blank
IsNonEmptySource(file) ==
    file # NoSuchFile /\ \E i \in 1..Len(file) : Strip(file[i]) # <<>>

SourceOf(loader) ==
    IF loader = "load_conversation" THEN conversation_source ELSE script_source
ExtractedFrom(loader) ==
    IF loader = "load_conversation" THEN ParseMessages(conversation_source)
    ELSE ParseQuestions(script_source)

\* the loader call ended with the error the source calls for, if any
FailsFast(outcome) ==
    /\ SourceOf(outcome.loader) = NoSuchFile =>
          outcome.exception \in {"SourceNotFound", "FileNotFoundError"}
    /\ (IsNonEmptySource(SourceOf(outcome.loader)) /\ ExtractedFrom(outcome.loader) = <<>>) =>
          outcome.exception = "ParseError"

\* C24: a missing transcript or question source ends loading with
\* SourceNotFound and a non-empty source from which nothing can be extracted
\* with ParseError; the run does not go on to compare against an empty
\* transcript; and the questions are never the built-in default questions.
C24_LoadingFailsFast ==
    /\ \A k \in 1..Len(load_outcomes) : FailsFast(load_outcomes[k])
    /\ load_pc = "comparing" => loaded_messages # <<>>
    /\ loaded_questions # DefaultQuestions

\* get_recent_messages was called and returned the last min(limit, N) messages
ReturnedLast(limit) ==
    LET n == Len(loaded_messages)
        k == IF limit < n THEN limit ELSE n
    IN recent.returned = SubSeq(loaded_messages, n - k + 1, n)

\* C25: for every transcript of N utterances and every limit >= 0,
\* get_recent_messages(limit) returns exactly the last min(limit, N)
\* utterances in their order, none for limit = 0, and leaves the stored
\* transcript unchanged.
C25_RecentIsLastLimit ==
    recent # NoRecent =>
        /\ ReturnedLast(recent.limit)
        /\ loaded_messages = ParseMessages(conversation_source)

(***************************************************************************)
(* Properties of the results of evaluate_questions with the requests of    *)
(* ask_ai_question, checked under SpecAsk.                                 *)
(***************************************************************************)
\* C26 (the part on evaluate_questions): a question whose call to the
\* answering service failed, by a non-success status, an exception, a failed
\* retrieval of the reply or exhausted retries, is recorded with
\* contains_error = True.
C26_FailedCallIsMarked ==
    \A k \in 1..Len(ask_records) : ask_records[k].failed => ask_records[k].contains_error

\* C30: the ai_response recorded for a question is a reply of the AI to that
\* question, whenever the server's reply arrives: never the reply to an
\* earlier question or a message from before the run.
C30_ReplyIsToTheQuestion ==
    \A k \in 1..Len(ask_records) :
        ask_records[k].about # -1 => ask_records[k].about = ask_records[k].question_number

(***************************************************************************)
(* The record test_gpt4_question returns, checked under SpecFull.          *)
(***************************************************************************)
\* the model calls test_gpt4_question has made: one before each sleep, and
\* the one whose iteration returned
Gpt4CallsMade ==
    Len(gpt_sleeps) + (IF gpt_record.answer = <<"Unexpected", "error">> THEN 0 ELSE 1)

\* C29: for every sequence of rate-limit errors, other errors and successes
\* of the model call, test_gpt4_question returns a success record with
\* attempts equal to the number of calls made, or the failure record
\* "Error after 3 attempts: ...", after at most max_retries calls, and never
\* the fall-through record "Unexpected error".
C29_NeverFallsThrough ==
    gpt_pc = "returned" =>
        /\ gpt_record.answer # <<"Unexpected", "error">>
        /\ Gpt4CallsMade <= Gpt4MaxRetries
        /\ \/ gpt_record.success /\ gpt_record.attempts = Gpt4CallsMade
           \/ /\ ~gpt_record.success
              /\ Len(gpt_record.answer) >= 4
              /\ SubSeq(gpt_record.answer, 1, 4)
                     = <<"Error", "after", ToString(Gpt4MaxRetries), "attempts:">>

(***************************************************************************)
(* Properties of the secondary pass enhanced_semantic_match, checked under *)
(* SpecEnhanced.                                                           *)
(***************************************************************************)
\* what basic_semantic_match returns on the arguments of the secondary pass
BasicVerdict == basic_semantic_match(ground_truth, ai_response)

\* C27: enhanced_semantic_match reclassifies only answers that
\* basic_semantic_match rejected: a basic match keeps its verdict, reason and
\* confidence, gap_analysis is non-null exactly when the basic verdict was
\* non-match, and an answer that basic matching rejected as "No valid
\* response" (empty or carrying the failure sentinel) is never reclassified
\* as a match.
C27_ReclassifiesOnlyNearMisses ==
    enhanced # NotEnhanced =>
        /\ BasicVerdict.match =>
               /\ enhanced.match
               /\ enhanced.reason = BasicVerdict.reason
               /\ enhanced.confidence = BasicVerdict.confidence
        /\ enhanced.gap_analysis.present <=> ~BasicVerdict.match
        /\ BasicVerdict.reason = "No valid response" => ~enhanced.match

(***************************************************************************)
(* Properties of the reports of repeated runs on one evaluator object,     *)
(* checked under SpecRuns.                                                 *)
(***************************************************************************)
\* the positions of the detailed results of the report for a question, or for
\* a question and a strategy
DetailedOf(i) ==
    LET detailed == run_report.detailed_results
    IN  { k \in 1..Len(detailed) :
            IF evaluator_class = "ResilientAIEvaluator"
            THEN detailed[k].question_number = i
            ELSE detailed[k].question_id = i }
DetailedOfStrategy(i, name) ==
    { k \in DetailedOf(i) : run_report.detailed_results[k].architecture = name }

\* the report holds exactly one detailed result per question of the run, or
\* per question and strategy for run_comparison
OneResultPerQuestion ==
    IF evaluator_class = "ArchitectureComparison"
    THEN /\ Len(run_report.detailed_results) = run_questions * Len(Architectures)
         /\ \A i \in 0..(run_questions - 1) : \A a \in 1..Len(Architectures) :
                Cardinality(DetailedOfStrategy(i, Architectures[a])) = 1
    ELSE /\ Len(run_report.detailed_results) = run_questions
         /\ \A i \in 1..run_questions : Cardinality(DetailedOf(i)) = 1

\* the summary counts of the report equal the counts of its detailed results
SummaryMatchesDetails ==
    LET detailed == run_report.detailed_results
        correct == IF evaluator_class = "ResilientAIEvaluator"
                   THEN EvaluationCorrectIn(detailed) ELSE CorrectIn(detailed)
    IN  run_report.has_summary =>
            /\ run_report.total_questions = Len(detailed)
            /\ run_report.correct_answers = Cardinality(correct)
            /\ run_report.memory_type_breakdown = MemoryStats(detailed, correct)

\* C28: after any sequence of runs on the same evaluator object, the report
\* a run returns contains exactly one detailed result per question (per
\* strategy) of that run, and its summary counts equal the counts computed
\* from its detailed results.
C28_ReportIsOfItsRun ==
    runs_done >= 1 => OneResultPerQuestion /\ SummaryMatchesDetails

====
